---------------------------- MODULE Spec2Model ----------------------------
(***************************************************************************)
(* A model of three darklua rewrite rules:                                 *)
(*   - remove_continue              (src/src/rules/remove_continue.rs)     *)
(*   - remove_duplicated_keys       (src/src/rules/remove_duplicated_keys) *)
(*   - remove_generalized_iteration (src/src/rules/remove_generalized_..)  *)
(* Each rule has its own specification (SpecContinue, SpecKeys, SpecIter): *)
(* Init draws a syntax tree from a bounded family, one action applies the  *)
(* rule's node hook, and further actions execute the original and the      *)
(* rewritten code under a reference interpreter of the Lua constructs      *)
(* involved, recording what each of them does.                             *)
(***************************************************************************)
EXTENDS Integers, Sequences, FiniteSets, TLC

VARIABLES
    rcPc,       \* remove_continue: "parsed" | "processed" | "visited" | "ran" | "exited" | "again"
    rcOrig,     \* the loop statement as parsed
    rcNew,      \* the loop statement as the rule has rewritten it so far
    rcVal,      \* the branch conditions that held in the last iteration executed
    rcObsOrig,  \* what the last iteration of the original loop did
    rcObsNew,   \* what the last iteration of the rewritten loop did
    rcTwice,    \* the rewritten loop after the rule has been run on it once more
    rkPc,       \* remove_duplicated_keys: "parsed" | "processed" | "visited" | "ran" | "again"
    rkOrig,     \* the table literal as parsed
    rkNew,      \* the expression that stands in its place
    rkSkip,     \* Processor::skip_next_table_exp
    rkRet,      \* the key the calls in key position returned in the last evaluation
    rkObsOrig,  \* the table the original literal evaluated to, and the calls made
    rkObsNew,   \* the same for the rewritten expression
    rkTwice,    \* the rewritten expression after the rule has been run on it once more
    giPc,       \* remove_generalized_iteration: "parsed" | "processed" | "visited" | "ran"
    giOrig,     \* the block as parsed
    giNew,      \* the block as the rule has rewritten it so far
    giSkip,     \* Processor::skip_block_once
    giKind,     \* what the iterated expressions were in the last execution
    giItems,    \* how many items each loop yielded in the last execution
    giTrace,    \* what the last execution of the rewritten block did, in order
    cfPc,       \* configuration: "created" | "configured"
    cfRule,     \* the name of the rule
    cfProps,    \* the properties it is configured with
    cfOrder,    \* the order in which configure came to the properties
    cfBefore,   \* the configuration fields of the rule before configure
    cfFields,   \* the configuration fields of the rule
    cfResult,   \* what configure returned
    nmPc,       \* helper names: "given" | "first" | "second"
    nmRule,     \* the rule that is run
    nmFormat,   \* its runtime_variable_format
    nmBlock,    \* the block both runs are given
    nmFirst,    \* the helper names and the tree of the first run
    nmSecond,   \* the helper names and the tree of the second run
    wsPc,       \* write_string: "given" | "written" | "read"
    wsValue,    \* the value of the string expression
    wsLiteral,  \* the literal write_string gave for it
    wsRead,     \* what the literal denotes when read back
    ilPc,       \* inject_libraries: "configured" | "processed"
    ilLibraries,\* InjectLibraries::libraries
    ilNoHash,   \* InjectLibraries::no_hash
    ilOrig,     \* the statements of the block as parsed
    ilNew       \* the statements of the block after the rule

rcVars == <<rcPc, rcOrig, rcNew, rcVal, rcObsOrig, rcObsNew, rcTwice>>
rkVars == <<rkPc, rkOrig, rkNew, rkSkip, rkRet, rkObsOrig, rkObsNew, rkTwice>>
giVars == <<giPc, giOrig, giNew, giSkip, giKind, giItems, giTrace>>
cfVars == <<cfPc, cfRule, cfProps, cfOrder, cfBefore, cfFields, cfResult>>
nmVars == <<nmPc, nmRule, nmFormat, nmBlock, nmFirst, nmSecond>>
wsVars == <<wsPc, wsValue, wsLiteral, wsRead>>
ilVars == <<ilPc, ilLibraries, ilNoHash, ilOrig, ilNew>>
vars == <<rcVars, rkVars, giVars, cfVars, nmVars, wsVars, ilVars>>

\* The variables of the other rules, which a step of one rule leaves alone.
exceptContinue == <<rkVars, giVars, cfVars, nmVars, wsVars, ilVars>>
exceptKeys == <<rcVars, giVars, cfVars, nmVars, wsVars, ilVars>>
exceptIter == <<rcVars, rkVars, cfVars, nmVars, wsVars, ilVars>>
exceptConfig == <<rcVars, rkVars, giVars, nmVars, wsVars, ilVars>>
exceptNames == <<rcVars, rkVars, giVars, cfVars, wsVars, ilVars>>
exceptInject == <<rcVars, rkVars, giVars, cfVars, nmVars, wsVars>>
exceptString == <<rcVars, rkVars, giVars, cfVars, nmVars, ilVars>>

-----------------------------------------------------------------------------
(* Bounds of the model.                                                    *)

\* The number of statements of a generated loop body (terminator apart).
MaxLen == 2

\* The number of iterations after which a nested loop's condition is exhausted.
InnerIters == 2

\* The number of entries of a generated table literal.
MaxEntries == 3

\* Statements in the block remove_generalized_iteration is run on.
MaxStmts == 2

\* Items a generic for yields when the rewritten block is executed.
MaxItems == 2

\* Properties in the map a rule is configured with.
MaxProps == 3

-----------------------------------------------------------------------------
(* Syntax trees (crate::nodes, as the rules build and match them).         *)

Block(stmts, last) == [stmts |-> stmts, last |-> last]

\* Expressions that occur as conditions and values.
Ext(n) == [e |-> "ext", n |-> n]     \* a condition of the user's program
Id(n) == [e |-> "id", n |-> n]       \* Expression::Identifier
Not(n) == [e |-> "not", n |-> n]     \* UnaryExpression(Not, identifier)
True == [e |-> "true", n |-> ""]
False == [e |-> "false", n |-> ""]

Call(name) == [t |-> "call", name |-> name]
Branch(cond, block) == [cond |-> cond, block |-> block]
\* An if statement: its branches (if / elseif) and its optional else block,
\* a sequence of length 0 or 1.
If(branches, else) == [t |-> "if", branches |-> branches, else |-> else]
IfCreate(cond, block) == If(<<Branch(cond, block)>>, <<>>)
Do(block) == [t |-> "do", block |-> block]
Loop(kind, cond, block) == [t |-> kind, cond |-> cond, block |-> block]
RepeatNew(block, cond) == Loop("repeat", cond, block)
LocalAssign(var, value) == [t |-> "local", var |-> var, value |-> value]
Assign(var, value) == [t |-> "assign", var |-> var, value |-> value]

LoopKinds == {"numfor", "genfor", "repeat", "while"}

\* The names RuntimeVariableBuilder builds for "break" and "continue".
BreakVariableName == "_DARKLUA_REMOVE_CONTINUE_break"
ContinueVariableName == "_DARKLUA_REMOVE_CONTINUE_continue"

-----------------------------------------------------------------------------
(* remove_continue: the functions of the rule.                             *)

Pair(c, b) == [c |-> c, b |-> b]
Plus(p, q) == Pair(p.c + q.c, p.b + q.b)

RECURSIVE count_continue_break(_)
RECURSIVE CountBranches(_, _)
RECURSIVE CountStatements(_, _)

\* for branch in if_stmt.iter_branches(): the branches, not the else block
CountBranches(branches, i) ==
    IF i > Len(branches) THEN Pair(0, 0)
    ELSE Plus(count_continue_break(branches[i].block), CountBranches(branches, i + 1))

\* CountStatements that goes on into the body of a nested loop.
RECURSIVE CountStatementsInLoops(_, _)
CountStatementsInLoops(stmts, i) ==
    IF i > Len(stmts) THEN Pair(0, 0)
    ELSE LET stmt == stmts[i]
             here == IF stmt.t = "if" THEN CountBranches(stmt.branches, 1)
                     ELSE IF stmt.t = "do" \/ stmt.t \in {"numfor", "genfor", "repeat", "while"}
                     THEN count_continue_break(stmt.block)
                     ELSE Pair(0, 0)
         IN  Plus(here, CountStatementsInLoops(stmts, i + 1))

CountStatements(stmts, i) ==
    IF i > Len(stmts) THEN Pair(0, 0)
    ELSE LET stmt == stmts[i]
             here == IF stmt.t = "if" THEN CountBranches(stmt.branches, 1)
                     ELSE IF stmt.t = "do" THEN count_continue_break(stmt.block)
                     ELSE Pair(0, 0)
         IN  Plus(here, CountStatements(stmts, i + 1))

count_continue_break(block) ==
    Plus(Pair(IF block.last = "continue" THEN 1 ELSE 0,
              IF block.last = "break" THEN 1 ELSE 0),
         CountStatements(block.stmts, 1))

RECURSIVE continues_to_breaks(_)
continues_to_breaks(block) ==
    LET stmtOf(stmt) ==
            IF stmt.t = "if"
            THEN [stmt EXCEPT !.branches =
                    [i \in 1..Len(stmt.branches) |->
                        Branch(stmt.branches[i].cond,
                               continues_to_breaks(stmt.branches[i].block))]]
            ELSE IF stmt.t = "do"
            THEN [stmt EXCEPT !.block = continues_to_breaks(stmt.block)]
            ELSE stmt
    IN  Block([i \in 1..Len(block.stmts) |-> stmtOf(block.stmts[i])],
              IF block.last = "continue" THEN "break" ELSE block.last)

RECURSIVE continues_with_breaks_to_breaks(_, _)
continues_with_breaks_to_breaks(block, with_continue_statement) ==
    LET pushed ==
            IF block.last = "continue" /\ with_continue_statement
            THEN Append(block.stmts, Assign(ContinueVariableName, True))
            ELSE IF block.last = "break" /\ ~with_continue_statement
            THEN Append(block.stmts, Assign(BreakVariableName, True))
            ELSE block.stmts
        last == IF block.last = "continue" THEN "break" ELSE block.last
        stmtOf(stmt) ==
            IF stmt.t = "if"
            THEN [stmt EXCEPT !.branches =
                    [i \in 1..Len(stmt.branches) |->
                        Branch(stmt.branches[i].cond,
                               continues_with_breaks_to_breaks(
                                   stmt.branches[i].block, with_continue_statement))]]
            ELSE IF stmt.t = "do"
            THEN [stmt EXCEPT !.block =
                    continues_with_breaks_to_breaks(stmt.block, with_continue_statement)]
            ELSE stmt
    IN  Block([i \in 1..Len(pushed) |-> stmtOf(pushed[i])], last)

\* Processor::process, the rewrite of a body that holds `continue`:
\* n is what count_continue_break found in it.
\* WrapBody with the block of the conditional after the wrapper ending in
\* `continue` where the code builds LastStatement::new_break().
WrapBodyHandlerContinues(block, n) ==
    IF n.b > 0
    THEN LET with_continue_statement == n.c < n.b
             break_block == Block(<<>>, "continue")
             var == IF with_continue_statement
                    THEN ContinueVariableName ELSE BreakVariableName
             break_variable_handler ==
                 IF with_continue_statement
                 THEN IfCreate(Not(var), break_block)
                 ELSE IfCreate(Id(var), break_block)
             inner == continues_with_breaks_to_breaks(block, with_continue_statement)
         IN  Block(<<LocalAssign(var, False),
                     RepeatNew(inner, True),
                     break_variable_handler>>, "none")
    ELSE Block(<<RepeatNew(continues_to_breaks(block), True)>>, "none")

\* WrapBody with the sentinel set by a plain assignment where the code
\* declares a local (LocalAssignStatement::from_variable).
WrapBodyAssignsSentinel(block, n) ==
    IF n.b > 0
    THEN LET with_continue_statement == n.c < n.b
             break_block == Block(<<>>, "break")
             var == IF with_continue_statement
                    THEN ContinueVariableName ELSE BreakVariableName
             break_variable_handler ==
                 IF with_continue_statement
                 THEN IfCreate(Not(var), break_block)
                 ELSE IfCreate(Id(var), break_block)
             inner == continues_with_breaks_to_breaks(block, with_continue_statement)
         IN  Block(<<Assign(var, False),
                     RepeatNew(inner, True),
                     break_variable_handler>>, "none")
    ELSE Block(<<RepeatNew(continues_to_breaks(block), True)>>, "none")

WrapBody(block, n) ==
    IF n.b > 0
    THEN LET with_continue_statement == n.c < n.b
             break_block == Block(<<>>, "break")
             var == IF with_continue_statement
                    THEN ContinueVariableName ELSE BreakVariableName
             break_variable_handler ==
                 IF with_continue_statement
                 THEN IfCreate(Not(var), break_block)
                 ELSE IfCreate(Id(var), break_block)
             inner == continues_with_breaks_to_breaks(block, with_continue_statement)
         IN  Block(<<LocalAssign(var, False),
                     RepeatNew(inner, True),
                     break_variable_handler>>, "none")
    ELSE Block(<<RepeatNew(continues_to_breaks(block), True)>>, "none")

\* Process with the test `continue_count > 0` widened to any jump.
ProcessOnAnyJump(block) ==
    LET n == count_continue_break(block)
    IN  IF n.c > 0 \/ n.b > 0 THEN WrapBody(block, n) ELSE block

\* Processor::process
Process(block) ==
    LET n == count_continue_break(block)
    IN  IF n.c > 0 THEN WrapBody(block, n) ELSE block

\* NodeProcessor::process_statement
process_statement(statement) ==
    IF statement.t \in LoopKinds
    THEN [statement EXCEPT !.block = Process(statement.block)]
    ELSE statement

\* DefaultVisitor: the hook on a statement, then its child blocks in order.
RECURSIVE VisitStatement(_)
RECURSIVE VisitBlock(_)
VisitChildren(s) ==
    IF s.t = "if"
    THEN [s EXCEPT !.branches =
            [i \in 1..Len(s.branches) |->
                Branch(s.branches[i].cond, VisitBlock(s.branches[i].block))],
          !.else = [i \in 1..Len(s.else) |-> VisitBlock(s.else[i])]]
    ELSE IF s.t = "do" \/ s.t \in LoopKinds
    THEN [s EXCEPT !.block = VisitBlock(s.block)]
    ELSE s

VisitStatement(statement) == VisitChildren(process_statement(statement))

VisitBlock(block) ==
    Block([i \in 1..Len(block.stmts) |-> VisitStatement(block.stmts[i])], block.last)

-----------------------------------------------------------------------------
(* Reference interpreter of the statements above (Luau semantics): a block *)
(* runs under a valuation val of the program's conditions and an           *)
(* environment env of the generated locals; it yields the calls made, in   *)
(* order, and how the block was left.                                      *)

VarNames == {BreakVariableName, ContinueVariableName}
EmptyEnv == [n \in VarNames |-> "nil"]

Result(trace, exit, env) == [trace |-> trace, exit |-> exit, env |-> env]

Truthy(v) == v \notin {"nil", "false"}

Eval(exp, val, env) ==
    CASE exp.e = "ext" -> exp.n \in val
      [] exp.e = "id" -> Truthy(env[exp.n])
      [] exp.e = "not" -> ~Truthy(env[exp.n])
      [] exp.e = "true" -> TRUE
      [] OTHER -> FALSE

ValueOf(exp) == IF exp.e = "true" THEN "true" ELSE "false"

RECURSIVE ExecBlock(_, _, _)
RECURSIVE ExecFrom(_, _, _, _)
RECURSIVE ExecStatement(_, _, _)
RECURSIVE ExecBranches(_, _, _, _)
RECURSIVE ExecLoop(_, _, _, _)

\* if / elseif / else: the first branch whose condition holds, else the else block
ExecBranches(s, i, val, env) ==
    IF i > Len(s.branches)
    THEN IF Len(s.else) > 0 THEN ExecBlock(s.else[1], val, env)
         ELSE Result(<<>>, "normal", env)
    ELSE IF Eval(s.branches[i].cond, val, env)
         THEN ExecBlock(s.branches[i].block, val, env)
         ELSE ExecBranches(s, i + 1, val, env)

\* A loop statement met while running a block; k iterations are done.  In
\* its body `break` leaves the loop and `continue` goes to the next test of
\* its condition; `return` leaves the enclosing function.
ExecLoop(s, k, val, env) ==
    LET enter == CASE s.t = "while" -> Eval(s.cond, val, env) /\ k < InnerIters
                   [] s.t = "repeat" -> TRUE
                   [] OTHER -> k < InnerIters
    IN  IF ~enter THEN Result(<<>>, "normal", env)
        ELSE LET r == ExecBlock(s.block, val, env)
                 again == CASE s.t = "repeat" ->
                                ~Eval(s.cond, val, r.env) /\ k + 1 < InnerIters
                            [] OTHER -> TRUE
             IN  IF r.exit = "return" THEN r
                 ELSE IF r.exit = "break" \/ ~again
                 THEN Result(r.trace, "normal", r.env)
                 ELSE LET rest == ExecLoop(s, k + 1, val, r.env)
                      IN  Result(r.trace \o rest.trace, rest.exit, rest.env)

ExecStatement(s, val, env) ==
    CASE s.t = "call" -> Result(<<s.name>>, "normal", env)
      [] s.t = "local" -> Result(<<>>, "normal", [env EXCEPT ![s.var] = ValueOf(s.value)])
      [] s.t = "assign" -> Result(<<>>, "normal", [env EXCEPT ![s.var] = ValueOf(s.value)])
      [] s.t = "if" -> ExecBranches(s, 1, val, env)
      [] s.t = "do" -> ExecBlock(s.block, val, env)
      [] OTHER -> ExecLoop(s, 0, val, env)

ExecFrom(block, i, val, env) ==
    IF i > Len(block.stmts)
    THEN Result(<<>>, IF block.last = "none" THEN "normal" ELSE block.last, env)
    ELSE LET r == ExecStatement(block.stmts[i], val, env)
         IN  IF r.exit # "normal" THEN r
             ELSE LET rest == ExecFrom(block, i + 1, val, r.env)
                  IN  Result(r.trace \o rest.trace, rest.exit, rest.env)

\* The locals a block declares go out of scope when the block is left.
Declared(block) ==
    {block.stmts[i].var : i \in {j \in 1..Len(block.stmts) : block.stmts[j].t = "local"}}

ExecBlock(block, val, env) ==
    LET r == ExecFrom(block, 1, val, env)
    IN  Result(r.trace, r.exit,
               [n \in VarNames |-> IF n \in Declared(block) THEN env[n] ELSE r.env[n]])

\* One iteration of a loop whose body is `block`: the calls it makes and
\* what the loop does next.
Observation(trace, cause) == [trace |-> trace, cause |-> cause]
NoObservation == Observation(<<>>, "none")

RunBody(block, val) ==
    LET r == ExecBlock(block, val, EmptyEnv)
    IN  Observation(r.trace,
                    IF r.exit \in {"normal", "continue"} THEN "next" ELSE r.exit)

-----------------------------------------------------------------------------
(* remove_duplicated_keys: table literals and the rule's hook.             *)

\* Expressions of a table literal.  A number literal is held in halves
\* (Num(2) is 1, Num(3) is 1.5, Num(0) is 0), so that keys that are zero,
\* negative or not integers exist.  A call carries the position of the
\* entry it was written in, which tells the calls of a literal apart.
Num(h) == [e |-> "num", v |-> h]
Str(x) == [e |-> "str", v |-> x]
Const(i) == [e |-> "const", v |-> i]     \* a literal value, with no effect
CallExp(i) == [e |-> "call", v |-> i]    \* f(): its value is not known statically

ValueEntry(value) == [k |-> "value", key |-> Num(0), value |-> value]
IndexEntry(key, value) == [k |-> "index", key |-> key, value |-> value]
FieldEntry(name, value) == [k |-> "field", key |-> Str(name), value |-> value]

TableExp(entries) == [e |-> "table", entries |-> entries]
\* The statements of the generated function and the call of it:
\* (function() local var = {..} var[key] = value .. return var end)()
LocalTable(var, table) == [t |-> "local", var |-> var, key |-> Num(0), value |-> table]
AssignIndex(var, key, value) == [t |-> "assign", var |-> var, key |-> key, value |-> value]
CallFunction(stmts, var) == [e |-> "callfunction", stmts |-> stmts, return |-> var]

TABLE_VARIABLE_NAME == "__DARKLUA_REMOVE_DUPLICATED_KEYS_tbl"

\* Evaluator::evaluate on a key: a literal folds, a call is Unknown.
Evaluate(exp) ==
    CASE exp.e = "num" -> [ty |-> "Number", v |-> exp.v]
      [] exp.e = "str" -> [ty |-> "String", v |-> 0]
      [] OTHER -> [ty |-> "Unknown", v |-> 0]

\* lua_index.fract() == 0.0 && lua_index > 0.0
IsPositiveInteger(h) == h % 2 = 0 /\ h > 0

Insert(table, key, i) ==
    [k \in DOMAIN table \cup {key} |-> IF k = key THEN i ELSE table[k]]

\* The scan with a resolved positive integer key tracked for collisions
\* whether or not an entry with an Unknown key has been seen.
RECURSIVE ScanEntriesAlwaysTracked(_, _, _)
ScanEntriesAlwaysTracked(entries, i, st) ==
    IF i > Len(entries) THEN st
    ELSE LET entry == entries[i]
             value == Evaluate(entry.key)
             evicted(key) == IF key \in DOMAIN st.table
                             THEN Append(st.to_remove, st.table[key])
                             ELSE st.to_remove
             next ==
                CASE entry.k = "index" /\ value.ty = "Number" /\ IsPositiveInteger(value.v) ->
                        LET key == (value.v \div 2) - 1
                        IN  [st EXCEPT !.to_remove = evicted(key),
                                       !.table = Insert(st.table, key, i)]
                  [] entry.k = "index" /\ value.ty = "Unknown" ->
                        [st EXCEPT !.side_effect_stmts =
                                    Append(@, AssignIndex(TABLE_VARIABLE_NAME,
                                                          entry.key, entry.value)),
                                   !.to_remove = Append(@, i)]
                  [] entry.k = "value" ->
                        [st EXCEPT !.to_remove = evicted(st.num_index),
                                   !.table = Insert(st.table, st.num_index, i),
                                   !.num_index = @ + 1]
                  [] OTHER -> st
         IN  ScanEntriesAlwaysTracked(entries, i + 1, next)

\* The scan of the entries, lines 240-288.
RECURSIVE ScanEntries(_, _, _)
ScanEntries(entries, i, st) ==
    IF i > Len(entries) THEN st
    ELSE LET entry == entries[i]
             value == Evaluate(entry.key)
             evicted(key) == IF key \in DOMAIN st.table
                             THEN Append(st.to_remove, st.table[key])
                             ELSE st.to_remove
             next ==
                CASE entry.k = "index" /\ value.ty = "Number" /\ IsPositiveInteger(value.v) ->
                        LET key == (value.v \div 2) - 1
                        IN  IF st.side_effect_stmts = <<>>
                            THEN [st EXCEPT !.to_remove = evicted(key),
                                            !.table = Insert(st.table, key, i)]
                            ELSE [st EXCEPT !.side_effect_stmts =
                                    Append(@, AssignIndex(TABLE_VARIABLE_NAME,
                                                          Num(2 * (key + 1)), entry.value))]
                  [] entry.k = "index" /\ value.ty = "Unknown" ->
                        [st EXCEPT !.side_effect_stmts =
                                    Append(@, AssignIndex(TABLE_VARIABLE_NAME,
                                                          entry.key, entry.value)),
                                   !.to_remove = Append(@, i)]
                  [] entry.k = "value" ->
                        [st EXCEPT !.to_remove = evicted(st.num_index),
                                   !.table = Insert(st.table, st.num_index, i),
                                   !.num_index = @ + 1]
                  [] OTHER -> st
         IN  ScanEntries(entries, i + 1, next)

\* keys.sort()
RECURSIVE SortedKeys(_)
SortedKeys(S) ==
    IF S = {} THEN <<>>
    ELSE LET m == CHOOSE x \in S : \A y \in S : x <= y
         IN  <<m>> \o SortedKeys(S \ {m})

\* The rebuilt entries, every tracked entry emitted in positional form.
NewEntriesAllPositional(entries, st) ==
    LET keys == SortedKeys(DOMAIN st.table)
    IN  [j \in 1..Len(keys) |-> ValueEntry(entries[st.table[keys[j]]].value)]

\* The rebuilt entries, lines 293-323.
NewEntries(entries, st) ==
    LET keys == SortedKeys(DOMAIN st.table)
        new_entry(i) ==
            LET entry == entries[st.table[i]]
            IN  IF entry.k = "index"
                THEN IF i <= st.num_index
                     THEN ValueEntry(entry.value)
                     ELSE entry
                ELSE ValueEntry(entry.value)
    IN  [j \in 1..Len(keys) |-> new_entry(keys[j])]

\* process_expression that leaves skip_next_table_exp unset when it has
\* generated the function.
process_expression_flag_unset(exp, skip) ==
    IF exp.e # "table" THEN [exp |-> exp, skip |-> skip]
    ELSE IF skip THEN [exp |-> exp, skip |-> FALSE]
    ELSE LET st == ScanEntries(exp.entries, 1,
                       [table |-> <<>>, num_index |-> 0,
                        side_effect_stmts |-> <<>>, to_remove |-> <<>>])
             entries == NewEntries(exp.entries, st)
         IN  IF st.side_effect_stmts # <<>>
             THEN [exp |-> CallFunction(
                              <<LocalTable(TABLE_VARIABLE_NAME, TableExp(entries))>>
                                  \o st.side_effect_stmts,
                              TABLE_VARIABLE_NAME),
                   skip |-> FALSE]
             ELSE [exp |-> TableExp(entries), skip |-> FALSE]

\* NodeProcessor::process_expression with skip_next_table_exp = skip; the
\* result is the expression and the flag afterwards.
process_expression(exp, skip) ==
    IF exp.e # "table" THEN [exp |-> exp, skip |-> skip]
    ELSE IF skip THEN [exp |-> exp, skip |-> FALSE]
    ELSE LET st == ScanEntries(exp.entries, 1,
                       [table |-> <<>>, num_index |-> 0,
                        side_effect_stmts |-> <<>>, to_remove |-> <<>>])
             entries == NewEntries(exp.entries, st)
         IN  IF st.side_effect_stmts # <<>>
             THEN [exp |-> CallFunction(
                              <<LocalTable(TABLE_VARIABLE_NAME, TableExp(entries))>>
                                  \o st.side_effect_stmts,
                              TABLE_VARIABLE_NAME),
                   skip |-> TRUE]
             ELSE [exp |-> TableExp(entries), skip |-> FALSE]

\* DefaultVisitor on the children of an expression: the table literal of
\* the generated function is the first expression it comes to.
VisitGenerated(exp, skip) ==
    IF exp.e = "callfunction"
    THEN LET r == process_expression(exp.stmts[1].value, skip)
         IN  [exp |-> [exp EXCEPT !.stmts[1].value = r.exp], skip |-> r.skip]
    ELSE [exp |-> exp, skip |-> skip]

-----------------------------------------------------------------------------
(* Evaluation of a table constructor (later declarations win, entries in   *)
(* source order) and of the generated function call.  ret is the value the *)
(* calls in key position return.                                           *)

EmptyTable == {}
Put(table, key, value) == {p \in table : p[1] # key} \cup {<<key, value>>}

\* The value an expression evaluates to, and the calls made for it.
ValueOfExp(exp, ret) ==
    CASE exp.e = "call" -> [e |-> "ret", v |-> exp.v]
      [] OTHER -> exp
KeyOfExp(exp, ret) == IF exp.e = "call" THEN ret ELSE exp
CallsOf(exp, role) == IF exp.e = "call" THEN <<<<role, exp.v>>>> ELSE <<>>

TableResult(table, trace) == [table |-> table, trace |-> trace]

RECURSIVE EvalEntries(_, _, _, _, _)
EvalEntries(entries, i, n, acc, ret) ==
    IF i > Len(entries) THEN acc
    ELSE LET entry == entries[i]
             key == IF entry.k = "value" THEN Num(2 * n) ELSE KeyOfExp(entry.key, ret)
             calls == (IF entry.k = "index" THEN CallsOf(entry.key, "key") ELSE <<>>)
                         \o CallsOf(entry.value, "value")
         IN  EvalEntries(entries, i + 1,
                         IF entry.k = "value" THEN n + 1 ELSE n,
                         TableResult(Put(acc.table, key, ValueOfExp(entry.value, ret)),
                                     acc.trace \o calls),
                         ret)

EvalTable(exp, ret) == EvalEntries(exp.entries, 1, 1, TableResult(EmptyTable, <<>>), ret)

RECURSIVE EvalAssigns(_, _, _, _)
EvalAssigns(stmts, i, acc, ret) ==
    IF i > Len(stmts) THEN acc
    ELSE EvalAssigns(stmts, i + 1,
            TableResult(Put(acc.table, KeyOfExp(stmts[i].key, ret),
                            ValueOfExp(stmts[i].value, ret)),
                        acc.trace \o CallsOf(stmts[i].key, "key")
                                  \o CallsOf(stmts[i].value, "value")),
            ret)

EvalExp(exp, ret) ==
    IF exp.e = "table" THEN EvalTable(exp, ret)
    ELSE EvalAssigns(exp.stmts, 2, EvalTable(exp.stmts[1].value, ret), ret)

-----------------------------------------------------------------------------
(* remove_generalized_iteration: the nodes it builds and its hooks.        *)

IdentE(name) == [e |-> "identifier", name |-> name]
StringE(value) == [e |-> "string", value |-> value]
\* The expression the user's loop iterates over; n tells the loops apart.
UserE(n) == [e |-> "user", n |-> n]
CallE(prefix, args) == [e |-> "call", prefix |-> prefix, args |-> args]
\* FunctionCall::from_prefix: a call with no arguments
CallFromPrefix(prefix) == CallE(prefix, <<>>)
FieldE(prefix, field) == [e |-> "field", prefix |-> prefix, field |-> field]
BinaryE(op, left, right) == [e |-> "binary", op |-> op, left |-> left, right |-> right]

LocalAssignN(names, values) == [t |-> "localassign", names |-> names, values |-> values]
AssignN(names, values) == [t |-> "assignvars", names |-> names, values |-> values]
\* A generic for: n stands for its variables, which tell the loops apart.
GenericFor(n, exps, block) == [t |-> "genericfor", n |-> n, exps |-> exps, block |-> block]

METATABLE_VARIABLE_NAME == "_m"
iterator_variable_name == "_DARKLUA_REMOVE_GENERALIZED_ITERATION_iter"
invariant_variable_name == "_DARKLUA_REMOVE_GENERALIZED_ITERATION_invar"
control_variable_name == "_DARKLUA_REMOVE_GENERALIZED_ITERATION_control"

\* get_type_condition with the type name never matching a table.
get_type_condition_never(arg, type_name) ==
    BinaryE("Equal", CallE(IdentE("type"), <<arg>>), StringE("none"))

get_type_condition(arg, type_name) ==
    BinaryE("Equal", CallE(IdentE("type"), <<arg>>), StringE(type_name))

\* The expressions of the loop afterwards with exps[0] left as it was.
triple_expressions_keep_first(exps) ==
    <<exps[1], IdentE(invariant_variable_name), IdentE(control_variable_name)>>

\* exps[0] = iterator_exp; exps.push(invariant_exp); exps.push(control_exp)
triple_expressions(exps) ==
    <<IdentE(iterator_variable_name),
      IdentE(invariant_variable_name),
      IdentE(control_variable_name)>>

\* The do statement built for the generic for with one expression.
into_do(generic_for) ==
    LET exps == generic_for.exps
        names == <<iterator_variable_name, invariant_variable_name, control_variable_name>>
        iterator_local_assign == LocalAssignN(names, <<exps[1]>>)
        iterator_exp == IdentE(iterator_variable_name)
        if_table_condition == get_type_condition(iterator_exp, "table")
        mt_identifier == IdentE(METATABLE_VARIABLE_NAME)
        get_mt_call == CallE(IdentE("getmetatable"), <<iterator_exp>>)
        mt_local_assign == LocalAssignN(<<METATABLE_VARIABLE_NAME>>, <<get_mt_call>>)
        if_mt_table_condition == get_type_condition(mt_identifier, "table")
        mt_iter == FieldE(mt_identifier, "__iter")
        if_mt_iter_function_condition == get_type_condition(mt_iter, "function")
        mt_iter_call == CallFromPrefix(mt_iter)
        assign_from_iter == AssignN(names, <<mt_iter_call>>)
        pairs_call == CallE(IdentE("pairs"), <<IdentE(iterator_variable_name)>>)
        assign_from_pairs == AssignN(names, <<pairs_call>>)
        if_mt_table_block == Block(<<assign_from_iter>>, "none")
        if_not_mt_table_block == Block(<<assign_from_pairs>>, "none")
        if_mt_table_branch ==
            Branch(BinaryE("And", if_mt_table_condition, if_mt_iter_function_condition),
                   if_mt_table_block)
        if_mt_table_stmt == If(<<if_mt_table_branch>>, <<if_not_mt_table_block>>)
        if_table_block == Block(<<mt_local_assign, if_mt_table_stmt>>, "none")
        if_table_stmt == If(<<Branch(if_table_condition, if_table_block)>>, <<>>)
    IN  Do(Block(<<iterator_local_assign,
                   if_table_stmt,
                   [generic_for EXCEPT !.exps = triple_expressions(exps)]>>, "none"))

\* Processor::process_into_do: None is <<>>, Some(stmt) is <<stmt>>.
RECURSIVE IntoDoFrom(_, _)
IntoDoFrom(block, i) ==
    IF i > Len(block.stmts) THEN <<>>
    ELSE IF block.stmts[i].t = "genericfor" /\ Len(block.stmts[i].exps) = 1
         THEN <<into_do(block.stmts[i])>>
         ELSE IntoDoFrom(block, i + 1)

process_into_do(block) == IntoDoFrom(block, 1)

\* block.clear(); block.insert_statement(0, stmt)
ClearAndInsert(block, stmt) == Block(<<stmt>>, "none")

\* NodeProcessor::process_block with skip_block_once = skip; the result is
\* the block and the flag afterwards.
process_block(block, skip) ==
    IF skip THEN [block |-> block, skip |-> FALSE]
    ELSE LET do_stmt == process_into_do(block)
         IN  IF do_stmt # <<>>
             THEN [block |-> ClearAndInsert(block, do_stmt[1]), skip |-> TRUE]
             ELSE [block |-> block, skip |-> skip]

\* DefaultVisitor: process_block on a block, then its statements in order,
\* each with its child blocks; the flag is carried along.
RECURSIVE IterVisitBlock(_, _)
RECURSIVE IterVisitStatements(_, _, _)
RECURSIVE IterVisitBlocks(_, _, _)

\* the blocks of a sequence, one after the other
IterVisitBlocks(blocks, i, skip) ==
    IF i > Len(blocks) THEN [blocks |-> blocks, skip |-> skip]
    ELSE LET r == IterVisitBlock(blocks[i], skip)
         IN  IterVisitBlocks([blocks EXCEPT ![i] = r.block], i + 1, r.skip)

IterVisitStatement(s, skip) ==
    IF s.t = "if"
    THEN LET b == IterVisitBlocks([i \in 1..Len(s.branches) |-> s.branches[i].block], 1, skip)
             e == IterVisitBlocks(s.else, 1, b.skip)
         IN  [stmt |-> If([i \in 1..Len(s.branches) |->
                              Branch(s.branches[i].cond, b.blocks[i])], e.blocks),
              skip |-> e.skip]
    ELSE IF s.t \in {"do", "genericfor"}
    THEN LET r == IterVisitBlock(s.block, skip)
         IN  [stmt |-> [s EXCEPT !.block = r.block], skip |-> r.skip]
    ELSE [stmt |-> s, skip |-> skip]

IterVisitStatements(block, i, skip) ==
    IF i > Len(block.stmts) THEN [block |-> block, skip |-> skip]
    ELSE LET r == IterVisitStatement(block.stmts[i], skip)
         IN  IterVisitStatements([block EXCEPT !.stmts[i] = r.stmt], i + 1, r.skip)

IterVisitBlock(block, skip) ==
    LET r == process_block(block, skip)
    IN  IterVisitStatements(r.block, 1, r.skip)

-----------------------------------------------------------------------------
(* Execution of the statements above in the target dialect, where a        *)
(* generic for calls its first value as the iterator function.  kind says  *)
(* what the user's expressions evaluate to and items how many items each   *)
(* loop yields.                                                            *)

V(ty, id, n) == [ty |-> ty, id |-> id, n |-> n]
Nil == V("nil", "", 0)
Bool(b) == V("boolean", IF b THEN "true" ELSE "false", 0)
Event(ev, n, args) == [ev |-> ev, n |-> n, args |-> args]

\* What the iterated expression of loop n evaluates to: a table without
\* metatable, a table whose metatable has no __iter, a __iter that is not a
\* function, a __iter function, the three values of a call like pairs(t),
\* or a lone function.
XKinds == {"plain", "noiter", "baditer", "iter", "triple", "function"}
XValues(kind, n) ==
    CASE kind = "triple" -> <<V("function", "next", 0), V("table", "plain", n), Nil>>
      [] kind = "function" -> <<V("function", "gen", n)>>
      [] OTHER -> <<V("table", kind, n)>>

MetatableOf(v) ==
    IF v.ty = "table" /\ v.id \in {"noiter", "baditer", "iter"}
    THEN V("table", "metatable", v.n) @@ [of |-> v.id]
    ELSE Nil

FieldOf(v, field) ==
    IF v.ty = "table" /\ v.id = "metatable" /\ field = "__iter"
    THEN CASE v.of = "iter" -> V("function", "custom", v.n)
           [] v.of = "baditer" -> V("number", "5", v.n)
           [] OTHER -> Nil
    ELSE Nil

IterNames == {METATABLE_VARIABLE_NAME, iterator_variable_name,
              invariant_variable_name, control_variable_name}
IterEmptyEnv == [name \in IterNames |-> Nil]

Values(vals, trace) == [vals |-> vals, trace |-> trace]
First(vals) == IF vals = <<>> THEN Nil ELSE vals[1]
IsTruthy(v) == ~(v.ty = "nil" \/ (v.ty = "boolean" /\ v.id = "false"))

\* A call of the function value f.
Apply(f, args) ==
    CASE f.id = "type" -> Values(<<V("string", First(args).ty, 0)>>, <<>>)
      [] f.id = "getmetatable" -> Values(<<MetatableOf(First(args))>>, <<>>)
      [] f.id = "pairs" ->
            Values(<<V("function", "next", 0), First(args), Nil>>,
                   <<Event("pairs", First(args).n, args)>>)
      [] f.id = "custom" ->
            Values(<<V("function", "custom_next", f.n), First(args), Nil>>,
                   <<Event("__iter", f.n, args)>>)
      [] OTHER -> Values(<<>>, <<Event("error", f.n, args)>>)

\* Then(x) for x the value of `value`, computed once.
Bind(value, Then(_)) == CHOOSE out \in {Then(x) : x \in {value}} : TRUE

Ran(env, trace) == [env |-> env, trace |-> trace]

\* An error was raised: the execution stops there.
Failed(r) == r.trace # <<>> /\ r.trace[Len(r.trace)].ev = "error"

Nth(vals, j) == IF j <= Len(vals) THEN vals[j] ELSE Nil

RECURSIVE EvalI(_, _, _)
RECURSIVE EvalList(_, _, _, _)

\* An expression list: every expression but the last gives one value.
EvalList(exps, i, env, kind) ==
    IF i > Len(exps) THEN Values(<<>>, <<>>)
    ELSE Bind(EvalI(exps[i], env, kind), LAMBDA r :
         Bind(EvalList(exps, i + 1, env, kind), LAMBDA rest :
            Values((IF i = Len(exps) THEN r.vals ELSE <<First(r.vals)>>) \o rest.vals,
                   r.trace \o rest.trace)))

EvalI(exp, env, kind) ==
    CASE exp.e = "identifier" ->
            Values(<<IF exp.name \in IterNames THEN env[exp.name]
                     ELSE V("function", exp.name, 0)>>, <<>>)
      [] exp.e = "string" -> Values(<<V("string", exp.value, 0)>>, <<>>)
      [] exp.e = "user" -> Values(XValues(kind, exp.n), <<Event("x", exp.n, <<>>)>>)
      [] exp.e = "field" ->
            Bind(EvalI(exp.prefix, env, kind), LAMBDA r :
                Values(<<FieldOf(First(r.vals), exp.field)>>, r.trace))
      [] exp.e = "binary" ->
            Bind(EvalI(exp.left, env, kind), LAMBDA l :
                IF exp.op = "And" /\ ~IsTruthy(First(l.vals))
                THEN Values(<<First(l.vals)>>, l.trace)
                ELSE Bind(EvalI(exp.right, env, kind), LAMBDA r :
                        Values(<<IF exp.op = "And" THEN First(r.vals)
                                 ELSE Bool(First(l.vals) = First(r.vals))>>,
                               l.trace \o r.trace)))
      [] OTHER ->
            Bind(EvalI(exp.prefix, env, kind), LAMBDA f :
            Bind(EvalList(exp.args, 1, env, kind), LAMBDA args :
            Bind(Apply(First(f.vals), args.vals), LAMBDA r :
                Values(r.vals, f.trace \o args.trace \o r.trace))))

RECURSIVE ExecI(_, _, _, _)
RECURSIVE ExecIBlock(_, _, _, _, _)
RECURSIVE ExecIBranches(_, _, _, _, _)
RECURSIVE ExecIItems(_, _, _, _, _)

ExecIBranches(s, i, env, kind, items) ==
    IF i > Len(s.branches)
    THEN IF Len(s.else) > 0 THEN ExecIBlock(s.else[1], 1, env, kind, items)
         ELSE Ran(env, <<>>)
    ELSE Bind(EvalI(s.branches[i].cond, env, kind), LAMBDA c :
         Bind(IF IsTruthy(First(c.vals))
              THEN ExecIBlock(s.branches[i].block, 1, env, kind, items)
              ELSE ExecIBranches(s, i + 1, env, kind, items), LAMBDA r :
            Ran(r.env, c.trace \o r.trace)))

\* The items of a generic for still to come: the iterator function is
\* called, then the body runs.
ExecIItems(s, left, env, kind, items) ==
    IF left = 0 THEN Ran(env, <<Event("next", s.n, <<>>)>>)
    ELSE Bind(ExecIBlock(s.block, 1, env, kind, items), LAMBDA body :
            IF Failed(body)
            THEN Ran(body.env, <<Event("next", s.n, <<>>)>> \o body.trace)
            ELSE Bind(ExecIItems(s, left - 1, body.env, kind, items), LAMBDA rest :
                    Ran(rest.env, <<Event("next", s.n, <<>>)>> \o body.trace \o rest.trace)))

ExecI(s, env, kind, items) ==
    CASE s.t \in {"localassign", "assignvars"} ->
            Bind(EvalList(s.values, 1, env, kind), LAMBDA r :
                Ran([name \in IterNames |->
                        IF \E j \in 1..Len(s.names) : s.names[j] = name
                        THEN Nth(r.vals, CHOOSE j \in 1..Len(s.names) : s.names[j] = name)
                        ELSE env[name]],
                    r.trace))
      [] s.t = "if" -> ExecIBranches(s, 1, env, kind, items)
      [] s.t = "do" -> ExecIBlock(s.block, 1, env, kind, items)
      [] s.t = "genericfor" ->
            Bind(EvalList(s.exps, 1, env, kind), LAMBDA r :
            Bind(<<Nth(r.vals, 1), Nth(r.vals, 2), Nth(r.vals, 3)>>, LAMBDA triple :
                IF triple[1].ty = "function"
                THEN Bind(ExecIItems(s, items, env, kind, items), LAMBDA run :
                        Ran(run.env, r.trace \o <<Event("for", s.n, triple)>> \o run.trace))
                ELSE Ran(env, r.trace \o <<Event("for", s.n, triple),
                                           Event("error", s.n, <<triple[1]>>)>>)))
      [] OTHER -> Ran(env, <<Event(s.name, 0, <<>>)>>)

ExecIBlock(block, i, env, kind, items) ==
    IF i > Len(block.stmts) THEN Ran(env, <<>>)
    ELSE Bind(ExecI(block.stmts[i], env, kind, items), LAMBDA r :
            IF Failed(r) THEN r
            ELSE Bind(ExecIBlock(block, i + 1, r.env, kind, items), LAMBDA rest :
                    Ran(rest.env, r.trace \o rest.trace)))

RunBlock(block, kind, items) == ExecIBlock(block, 1, IterEmptyEnv, kind, items).trace

-----------------------------------------------------------------------------
(* RuleConfiguration::configure of the rules.  properties maps each key    *)
(* given to its value; order is the order in which the loop                *)
(* `for (key, value) in properties` comes to the keys; fields maps each    *)
(* configuration field of the rule, named by its property, to its value.   *)

\* A property value: what it is, and which one.
Value(ty) == [ty |-> ty, v |-> "given"]
Default == [ty |-> "default", v |-> "default"]

Ok(fields) == [ok |-> TRUE, error |-> "", key |-> "", fields |-> fields]
Err(error, key, fields) == [ok |-> FALSE, error |-> error, key |-> key, fields |-> fields]

\* RuleConfigurationError's message.
Message(result) ==
    CASE result.error = "UnexpectedProperty" -> <<"unexpected field '", result.key, "'">>
      [] result.error = "MissingProperty" -> <<"missing required field '", result.key, "'">>
      [] OTHER -> <<result.error, result.key>>

\* value.expect_string(&key), expect_bool and the like: the error when the
\* value is of another type.
Expected(expect, value) ==
    CASE expect = "string" -> value.ty = "string"
      [] expect = "bool" -> value.ty = "bool"
      [] expect = "require_mode" -> value.ty \in {"string", "object"}
      [] OTHER -> value.ty = "object"

ExpectError(expect) ==
    CASE expect = "string" -> "StringExpected"
      [] expect = "bool" -> "BoolExpected"
      [] expect = "require_mode" -> "RequireModeExpected"
      [] OTHER -> "UnexpectedValueType"

\* verify_no_rule_properties
verify_no_rule_properties(properties, order, fields) ==
    IF order # <<>> THEN Err("UnexpectedProperty", order[1], fields) ELSE Ok(fields)

\* verify_required_properties
RECURSIVE verify_required_properties(_, _, _)
verify_required_properties(properties, names, fields) ==
    IF names = <<>> THEN Ok(fields)
    ELSE IF names[1] \notin DOMAIN properties
         THEN Err("MissingProperty", names[1], fields)
         ELSE verify_required_properties(properties, Tail(names), fields)

\* The arms of the match in each configure: the keys and what is expected
\* of their values.
RemoveContinueKeys == [runtime_variable_format |-> "string"]
RemoveGeneralizedIterationKeys == [runtime_variable_format |-> "string"]
InjectLibrariesKeys ==
    [require_mode |-> "require_mode", libraries |-> "libraries",
     path |-> "string", no_hash |-> "bool"]
InjectTypeCheckerKeys ==
    [error_call |-> "string", error_message_format |-> "string",
     return_errors |-> "bool", ignore_comment_pattern |-> "string",
     indexed_functions_only |-> "bool", strict |-> "bool",
     ignore_local_functions |-> "bool", runtime_identifier |-> "string"]
InjectTypecheckerKeys ==
    [use_typeof |-> "bool", return_errors |-> "bool", error_message |-> "string",
     error_call |-> "string", types |-> "types"]
NoKeys == <<>>

\* for (key, value) in properties { match key.as_str() { ... } } Ok(())
RECURSIVE ConfigureLoop(_, _, _, _, _)
ConfigureLoop(keys, properties, order, i, fields) ==
    IF i > Len(order) THEN Ok(fields)
    ELSE LET key == order[i]
             value == properties[key]
         IN  IF key \in DOMAIN keys
             THEN IF Expected(keys[key], value)
                  THEN ConfigureLoop(keys, properties, order, i + 1,
                                     [fields EXCEPT ![key] = value])
                  ELSE Err(ExpectError(keys[key]), key, fields)
             ELSE Err("UnexpectedProperty", key, fields)

RemoveContinueConfigure(properties, order, fields) ==
    ConfigureLoop(RemoveContinueKeys, properties, order, 1, fields)

RemoveGeneralizedIterationConfigure(properties, order, fields) ==
    ConfigureLoop(RemoveGeneralizedIterationKeys, properties, order, 1, fields)

\* RemoveDuplicatedKeys::configure without the verification.
RemoveDuplicatedKeysConfigureAny(properties, order, fields) == Ok(fields)

RemoveDuplicatedKeysConfigure(properties, order, fields) ==
    verify_no_rule_properties(properties, order, fields)

ConvertBit32Configure(properties, order, fields) ==
    verify_no_rule_properties(properties, order, fields)

InjectLibrariesConfigure(properties, order, fields) ==
    LET required == verify_required_properties(properties, <<"require_mode", "libraries">>, fields)
    IN  IF ~required.ok THEN required
        ELSE ConfigureLoop(InjectLibrariesKeys, properties, order, 1, fields)

InjectTypeCheckerConfigure(properties, order, fields) ==
    ConfigureLoop(InjectTypeCheckerKeys, properties, order, 1, fields)

InjectTypecheckerConfigure(properties, order, fields) ==
    ConfigureLoop(InjectTypecheckerKeys, properties, order, 1, fields)

\* get_name of each rule
REMOVE_CONTINUE_RULE_NAME == "remove_continue"
REMOVE_GENERALIZED_ITERATION_RULE_NAME == "remove_generalized_iteration"
REMOVE_DUPLICATED_KEYS_RULE_NAME == "remove_duplicated_keys"
CONVERT_BIT32_RULE_NAME == "convert_bit32"
INJECT_LIBRARIES_RULE_NAME == "inject_libraries"
INJECT_TYPE_CHECKER_RULE_NAME == "inject_type_checker"
INJECT_TYPECHECKER_RULE_NAME == "inject_typechecker"

RuleNames ==
    {REMOVE_CONTINUE_RULE_NAME, REMOVE_GENERALIZED_ITERATION_RULE_NAME,
     REMOVE_DUPLICATED_KEYS_RULE_NAME, CONVERT_BIT32_RULE_NAME,
     INJECT_LIBRARIES_RULE_NAME, INJECT_TYPE_CHECKER_RULE_NAME,
     INJECT_TYPECHECKER_RULE_NAME}

KeysOf(rule) ==
    CASE rule = REMOVE_CONTINUE_RULE_NAME -> RemoveContinueKeys
      [] rule = REMOVE_GENERALIZED_ITERATION_RULE_NAME -> RemoveGeneralizedIterationKeys
      [] rule = INJECT_LIBRARIES_RULE_NAME -> InjectLibrariesKeys
      [] rule = INJECT_TYPE_CHECKER_RULE_NAME -> InjectTypeCheckerKeys
      [] rule = INJECT_TYPECHECKER_RULE_NAME -> InjectTypecheckerKeys
      [] OTHER -> NoKeys

\* rule.configure(properties) on the rule of that name
Configure(rule, properties, order, fields) ==
    CASE rule = REMOVE_CONTINUE_RULE_NAME -> RemoveContinueConfigure(properties, order, fields)
      [] rule = REMOVE_GENERALIZED_ITERATION_RULE_NAME ->
            RemoveGeneralizedIterationConfigure(properties, order, fields)
      [] rule = REMOVE_DUPLICATED_KEYS_RULE_NAME ->
            RemoveDuplicatedKeysConfigure(properties, order, fields)
      [] rule = CONVERT_BIT32_RULE_NAME -> ConvertBit32Configure(properties, order, fields)
      [] rule = INJECT_LIBRARIES_RULE_NAME -> InjectLibrariesConfigure(properties, order, fields)
      [] rule = INJECT_TYPE_CHECKER_RULE_NAME ->
            InjectTypeCheckerConfigure(properties, order, fields)
      [] OTHER -> InjectTypecheckerConfigure(properties, order, fields)

\* Rule::default(): every field at its default value
DefaultFields(rule) == [key \in DOMAIN KeysOf(rule) |-> Default]

\* The helper local of remove_duplicated_keys:
\* TABLE_VARIABLE_NAME.to_string() + hash_hex
table_variable_name == <<TABLE_VARIABLE_NAME, "hash_hex">>

-----------------------------------------------------------------------------
(* generator::utils::write_string.  A string value and a literal are both  *)
(* sequences of characters, a character being its code point.              *)

FORCE_QUOTED_STRING_THRESHOLD == 40

\* char::is_ascii_graphic: '!' to '~'
is_ascii_graphic(character) == character \in 33..126

\* char::is_ascii
is_ascii(character) == character < 128

\* the characters ' " \ and the letters that follow a backslash
Chr(c) ==
    CASE c = "'" -> 39 [] c = "\"" -> 34 [] c = "\\" -> 92 [] c = " " -> 32
      [] c = "[" -> 91 [] c = "]" -> 93 [] c = "=" -> 61
      [] c = "{" -> 123 [] c = "}" -> 125
      [] c = "a" -> 97 [] c = "b" -> 98 [] c = "f" -> 102 [] c = "n" -> 110
      [] c = "o" -> 111 [] c = "r" -> 114 [] c = "t" -> 116 [] c = "u" -> 117
      [] c = "v" -> 118 [] c = "0" -> 48 [] c = "1" -> 49
      [] c = "LF" -> 10 [] c = "TAB" -> 9 [] c = "CR" -> 13 [] c = "BEL" -> 7
      [] c = "BS" -> 8 [] c = "VT" -> 11 [] c = "FF" -> 12 [] c = "ESC" -> 27

needs_escaping(character) ==
    ~(is_ascii_graphic(character) \/ character = Chr(" ")) \/ character = Chr("\\")

needs_quoted_string(character) ==
    ~(is_ascii_graphic(character) \/ character = Chr(" ") \/ character = Chr("LF"))

\* format!("{}", n): the decimal digits of n
RECURSIVE Decimal(_)
Decimal(n) == IF n < 10 THEN <<Chr("0") + n>>
              ELSE Decimal(n \div 10) \o <<Chr("0") + (n % 10)>>

\* format!("{:x}", n): the hexadecimal digits of n, in lower case
HexDigit(d) == IF d < 10 THEN Chr("0") + d ELSE Chr("a") + (d - 10)
RECURSIVE LowerHex(_)
LowerHex(n) == IF n < 16 THEN <<HexDigit(n)>>
               ELSE LowerHex(n \div 16) \o <<HexDigit(n % 16)>>

escape(character) ==
    CASE character = Chr("LF") -> <<Chr("\\"), Chr("n")>>
      [] character = Chr("TAB") -> <<Chr("\\"), Chr("t")>>
      [] character = Chr("\\") -> <<Chr("\\"), Chr("\\")>>
      [] character = Chr("CR") -> <<Chr("\\"), Chr("r")>>
      [] character = Chr("BEL") -> <<Chr("\\"), Chr("a")>>
      [] character = Chr("BS") -> <<Chr("\\"), Chr("b")>>
      [] character = Chr("VT") -> <<Chr("\\"), Chr("v")>>
      [] character = Chr("FF") -> <<Chr("\\"), Chr("f")>>
      [] OTHER ->
            IF is_ascii(character)
            THEN <<Chr("\\")>> \o Decimal(character)
            ELSE <<Chr("\\"), Chr("u"), Chr("{")>> \o LowerHex(character) \o <<Chr("}")>>

\* str::contains, for a pattern that is a string
Contains(value, pattern) ==
    \E k \in 0..(Len(value) - Len(pattern)) :
        SubSeq(value, k + 1, k + Len(pattern)) = pattern

\* "=".repeat(i)
Repeat(c, i) == [k \in 1..i |-> c]

\* str::len: the number of bytes of the UTF-8 encoding
RECURSIVE ByteLen(_)
ByteLen(value) ==
    IF value = <<>> THEN 0
    ELSE (IF value[1] < 128 THEN 1 ELSE IF value[1] < 2048 THEN 2 ELSE 3)
         + ByteLen(Tail(value))

RECURSIVE BracketLevel(_, _)
\* the loop of write_long_bracket, from level i
BracketLevel(value, i) ==
    IF ~Contains(value, <<Chr("]")>> \o Repeat(Chr("="), i) \o <<Chr("]")>>) THEN i
    ELSE BracketLevel(value, i + 1)

write_long_bracket(value) ==
    LET i == BracketLevel(value, IF value[Len(value)] = Chr("]") THEN 1 ELSE 0)
        equals == Repeat(Chr("="), i)
        needs_extra_new_line == IF value[1] = Chr("LF") THEN <<Chr("LF")>> ELSE <<>>
    IN  <<Chr("[")>> \o equals \o <<Chr("[")>> \o needs_extra_new_line \o value
            \o <<Chr("]")>> \o equals \o <<Chr("]")>>

get_quote_symbol(value) ==
    IF Contains(value, <<Chr("\"")>>) THEN Chr("'")
    ELSE IF Contains(value, <<Chr("'")>>) THEN Chr("\"")
    ELSE Chr("'")

RECURSIVE QuotedFrom(_, _, _)
\* the loop of write_quoted, from the i-th character
QuotedFrom(value, i, quote_symbol) ==
    IF i > Len(value) THEN <<>>
    ELSE (IF value[i] = quote_symbol THEN <<Chr("\\"), quote_symbol>>
          ELSE IF needs_escaping(value[i]) THEN escape(value[i])
          ELSE <<value[i]>>)
         \o QuotedFrom(value, i + 1, quote_symbol)

write_quoted(value) ==
    LET quote_symbol == get_quote_symbol(value)
    IN  <<quote_symbol>> \o QuotedFrom(value, 1, quote_symbol) \o <<quote_symbol>>

write_string(value) ==
    IF value = <<>> THEN <<Chr("'"), Chr("'")>>
    ELSE IF ByteLen(value) = 1
    THEN LET character == value[1]
         IN  CASE character = Chr("'") -> <<Chr("\""), Chr("'"), Chr("\"")>>
               [] character = Chr("\"") -> <<Chr("'"), Chr("\""), Chr("'")>>
               [] OTHER ->
                    IF needs_escaping(character)
                    THEN <<Chr("'")>> \o escape(character) \o <<Chr("'")>>
                    ELSE <<Chr("'"), character, Chr("'")>>
    ELSE IF \/ ByteLen(value) < FORCE_QUOTED_STRING_THRESHOLD
            \/ \E i \in 1..Len(value) : needs_quoted_string(value[i])
    THEN write_quoted(value)
    ELSE write_long_bracket(value)

-----------------------------------------------------------------------------
(* A string literal read under the rules of the language: what it denotes, *)
(* or that it is malformed.                                                *)

Denotes(value) == [ok |-> TRUE, value |-> value]
Malformed == [ok |-> FALSE, value |-> <<>>]

IsDigit(c) == c \in Chr("0")..(Chr("0") + 9)
IsHexDigit(c) == IsDigit(c) \/ c \in Chr("a")..Chr("f")
HexValue(c) == IF IsDigit(c) THEN c - Chr("0") ELSE c - Chr("a") + 10

At(lit, i) == IF i \in 1..Len(lit) THEN lit[i] ELSE 0

\* the number of digits of a decimal escape that starts at i: at most three
DigitsAt(lit, i) ==
    IF ~IsDigit(At(lit, i + 1)) THEN 1
    ELSE IF ~IsDigit(At(lit, i + 2)) THEN 2
    ELSE 3

RECURSIVE NumberAt(_, _, _)
NumberAt(lit, i, n) ==
    IF n = 0 THEN 0
    ELSE NumberAt(lit, i, n - 1) * 10 + (lit[i + n - 1] - Chr("0"))

\* the number of hexadecimal digits from i on
RECURSIVE HexDigitsAt(_, _)
HexDigitsAt(lit, i) == IF IsHexDigit(At(lit, i)) THEN 1 + HexDigitsAt(lit, i + 1) ELSE 0

RECURSIVE HexNumberAt(_, _, _)
HexNumberAt(lit, i, n) ==
    IF n = 0 THEN 0
    ELSE HexNumberAt(lit, i, n - 1) * 16 + HexValue(lit[i + n - 1])

LetterEscapes ==
    {<<Chr("n"), Chr("LF")>>, <<Chr("t"), Chr("TAB")>>, <<Chr("r"), Chr("CR")>>,
     <<Chr("a"), Chr("BEL")>>, <<Chr("b"), Chr("BS")>>, <<Chr("v"), Chr("VT")>>,
     <<Chr("f"), Chr("FF")>>, <<Chr("\\"), Chr("\\")>>, <<Chr("'"), Chr("'")>>,
     <<Chr("\""), Chr("\"")>>, <<Chr("LF"), Chr("LF")>>}

RECURSIVE ReadQuoted(_, _, _, _)
\* the characters of a quoted literal from the i-th on, acc being what the
\* ones before denote
ReadQuoted(lit, i, quote, acc) ==
    IF i > Len(lit) THEN Malformed
    ELSE IF lit[i] = quote THEN (IF i = Len(lit) THEN Denotes(acc) ELSE Malformed)
    ELSE IF lit[i] = Chr("LF") THEN Malformed
    ELSE IF lit[i] # Chr("\\") THEN ReadQuoted(lit, i + 1, quote, Append(acc, lit[i]))
    ELSE LET c == At(lit, i + 1)
         IN  IF \E e \in LetterEscapes : e[1] = c
             THEN ReadQuoted(lit, i + 2, quote,
                        Append(acc, (CHOOSE e \in LetterEscapes : e[1] = c)[2]))
             ELSE IF IsDigit(c)
             THEN LET n == DigitsAt(lit, i + 1)
                      byte == NumberAt(lit, i + 1, n)
                  IN  IF byte > 255 THEN Malformed
                      ELSE ReadQuoted(lit, i + 1 + n, quote, Append(acc, byte))
             ELSE IF c = Chr("u") /\ At(lit, i + 2) = Chr("{")
             THEN LET n == HexDigitsAt(lit, i + 3)
                  IN  IF n = 0 \/ At(lit, i + 3 + n) # Chr("}") THEN Malformed
                      ELSE ReadQuoted(lit, i + 4 + n, quote,
                                 Append(acc, HexNumberAt(lit, i + 3, n)))
             ELSE Malformed

\* the number of equal signs from i on
RECURSIVE EqualsAt(_, _)
EqualsAt(lit, i) == IF At(lit, i) = Chr("=") THEN 1 + EqualsAt(lit, i + 1) ELSE 0

\* a long-bracket literal of the level given: its content starts at i, the
\* first closing bracket of that level ends it
ReadLongBracket(lit, i, level) ==
    LET closing == <<Chr("]")>> \o Repeat(Chr("="), level) \o <<Chr("]")>>
        start == IF At(lit, i) = Chr("LF") THEN i + 1 ELSE i
        ends == {j \in start..(Len(lit) - Len(closing) + 1) :
                    SubSeq(lit, j, j + Len(closing) - 1) = closing}
    IN  IF ends = {} THEN Malformed
        ELSE LET j == CHOOSE j \in ends : \A k \in ends : j <= k
             IN  IF j + Len(closing) - 1 = Len(lit)
                 THEN Denotes(SubSeq(lit, start, j - 1))
                 ELSE Malformed

ReadString(lit) ==
    IF At(lit, 1) \in {Chr("'"), Chr("\"")} THEN ReadQuoted(lit, 2, lit[1], <<>>)
    ELSE IF At(lit, 1) = Chr("[") /\ At(lit, 2 + EqualsAt(lit, 2)) = Chr("[")
    THEN ReadLongBracket(lit, 3 + EqualsAt(lit, 2), EqualsAt(lit, 2))
    ELSE Malformed

-----------------------------------------------------------------------------
(* The names of the generated helpers.  A runtime_variable_format is a     *)
(* sequence of pieces, among them the placeholders {name} and {hash}.      *)

\* format!("{block:?}").as_bytes(), with a serialization that would differ
\* from one run to the next
DebugBytesOfRun(block) == <<"Debug", block, nmPc>>

\* format!("{block:?}").as_bytes(): the derived Debug serialization of the tree
DebugBytes(block) == <<"Debug", block>>

\* blake3::hash of the bytes
blake3_hash(bytes) == <<"blake3", bytes>>

\* hex::encode(&hash.as_bytes()[..8])
hex_encode_first8(hash) == <<"hex", 8, hash>>

VARIABLE_PREFIX == "_DARKLUA_REMOVE_GENERALIZED_ITERATION"

\* RuntimeVariableBuilder::build: the format with its placeholders filled in
Build(prefix, format, bytes, name) ==
    <<prefix>> \o
    [i \in 1..Len(format) |->
        CASE format[i] = "{name}" -> name
          [] format[i] = "{hash}" -> blake3_hash(bytes)
          [] OTHER -> format[i]]

Processed(names, tree) == [names |-> names, tree |-> tree]

\* RemoveContinue::process
RemoveContinueProcess(format, block) ==
    Processed([break |-> Build("", format, DebugBytes(block), "break"),
               continue |-> Build("", format, DebugBytes(block), "continue")],
              VisitStatement(block))

\* RemoveDuplicatedKeys::flawless_process
RemoveDuplicatedKeysProcess(format, block) ==
    Processed([tbl |-> <<TABLE_VARIABLE_NAME,
                         hex_encode_first8(blake3_hash(DebugBytes(block)))>>],
              LET r == process_expression(block, FALSE)
              IN  VisitGenerated(r.exp, r.skip).exp)

\* RemoveGeneralizedIteration::process
RemoveGeneralizedIterationProcess(format, block) ==
    Processed([iter |-> Build(VARIABLE_PREFIX, format, DebugBytes(block), "iter"),
               invar |-> Build(VARIABLE_PREFIX, format, DebugBytes(block), "invar"),
               control |-> Build(VARIABLE_PREFIX, format, DebugBytes(block), "control")],
              IterVisitBlock(block, FALSE).block)

-----------------------------------------------------------------------------
(* inject_libraries, in path require mode.  A library has a name and may   *)
(* have a path (to a file or to a directory) and an index.                 *)

Library(name, path, index) == [name |-> name, path |-> path, index |-> index]
\* a path: its file stem and its extension ("" for a directory)
LibPath(stem, ext) == [stem |-> stem, ext |-> ext]
\* Option::None, for the path and for the index
NoPath == LibPath("", "")
NoIndex == ""

NilE == [e |-> "nil"]
RequireCall(argument) == [e |-> "require", arg |-> argument]
LocalLibrary(name, value) == [t |-> "locallib", name |-> name, value |-> value]
\* a statement of the user's program that refers to the name given
PrintCall(name) == [t |-> "print", name |-> name]

\* InjectLibraries::get_require_path: the path of the copy under the
\* libraries directory, relative to the source file, its extension removed
get_require_path(libs_path, path, no_hash) ==
    LET hash_identifier == IF no_hash THEN ""
                           ELSE hex_encode_first8(blake3_hash(path))
    IN  <<"..", libs_path, <<path.stem, hash_identifier>>>>

\* the value of the local declared for the library
LibraryValue(lib, libs_path, no_hash) ==
    IF lib.path # NoPath
    THEN LET require_call == RequireCall(StringE(get_require_path(libs_path, lib.path, no_hash)))
         IN  IF lib.index # NoIndex THEN FieldE(require_call, lib.index) ELSE require_call
    ELSE NilE

\* block.insert_statement(0, statement)
InsertFirst(stmts, statement) == <<statement>> \o stmts

RECURSIVE InjectFrom(_, _, _, _, _)
\* the loop `for lib in &self.libraries`, from the i-th library
InjectFrom(libraries, i, libs_path, no_hash, stmts) ==
    IF i > Len(libraries) THEN stmts
    ELSE InjectFrom(libraries, i + 1, libs_path, no_hash,
             InsertFirst(stmts,
                 LocalLibrary(libraries[i].name,
                              LibraryValue(libraries[i], libs_path, no_hash))))

\* InjectLibraries::process, RequireMode::Path
InjectLibrariesProcess(libraries, libs_path, no_hash, stmts) ==
    InjectFrom(libraries, 1, libs_path, no_hash, stmts)

-----------------------------------------------------------------------------
(* remove_continue: the loops the rule is run on.                          *)

Conds == {"a", "b"}
Jumps == {"continue", "break"}
Lasts == {"none", "continue", "break", "return"}
Jump(last) == Block(<<>>, last)

\* The statements of a generated loop body: a call, if / elseif / else and
\* do blocks that end in a jump, the same one level deeper, and a nested
\* loop with a jump of its own.
StmtShapes ==
    {Call("f")}
    \cup {IfCreate(Ext(c), Jump(l)) : c \in Conds, l \in Jumps}
    \cup {If(<<Branch(Ext("a"), Jump(l)), Branch(Ext("b"), Jump(l))>>, <<>>) : l \in Jumps}
    \cup {If(<<Branch(Ext("a"), Jump(l1))>>, <<Jump(l2)>>) : l1 \in Jumps, l2 \in Jumps}
    \cup {Do(Jump(l)) : l \in Jumps}
    \cup {Do(Block(<<IfCreate(Ext("b"), Jump(l))>>, "none")) : l \in Jumps}
    \cup {Loop("while", Ext("b"), Block(<<IfCreate(Ext("a"), Jump(l))>>, "none")) : l \in Jumps}

SeqsUpTo(S, n) == UNION {[1..k -> S] : k \in 0..n}

BodiesUpTo(n) == {Block(stmts, last) : stmts \in SeqsUpTo(StmtShapes, n), last \in Lasts}

LoopsUpTo(n) == {Loop(kind, Ext("loop"), body) : kind \in LoopKinds, body \in BodiesUpTo(n)}

-----------------------------------------------------------------------------
(* The state of a rule that is not the one being run.                      *)

NoTable == TableResult(EmptyTable, <<>>)

IdleContinue ==
    /\ rcPc = "idle"
    /\ rcOrig = Loop("while", Ext("loop"), Block(<<>>, "none"))
    /\ rcNew = rcOrig
    /\ rcVal = {}
    /\ rcObsOrig = NoObservation
    /\ rcObsNew = NoObservation
    /\ rcTwice = rcOrig

IdleKeys ==
    /\ rkPc = "idle"
    /\ rkOrig = TableExp(<<>>)
    /\ rkNew = rkOrig
    /\ rkSkip = FALSE
    /\ rkRet = Num(0)
    /\ rkObsOrig = NoTable
    /\ rkObsNew = NoTable
    /\ rkTwice = rkOrig

IdleIter ==
    /\ giPc = "idle"
    /\ giOrig = Block(<<>>, "none")
    /\ giNew = giOrig
    /\ giSkip = FALSE
    /\ giKind = "plain"
    /\ giItems = 0
    /\ giTrace = <<>>

IdleConfig ==
    /\ cfPc = "idle"
    /\ cfRule = REMOVE_CONTINUE_RULE_NAME
    /\ cfProps = <<>>
    /\ cfOrder = <<>>
    /\ cfBefore = DefaultFields(cfRule)
    /\ cfFields = cfBefore
    /\ cfResult = Ok(cfFields)

IdleString ==
    /\ wsPc = "idle"
    /\ wsValue = <<>>
    /\ wsLiteral = <<>>
    /\ wsRead = Malformed

IdleInject ==
    /\ ilPc = "idle"
    /\ ilLibraries = <<>>
    /\ ilNoHash = FALSE
    /\ ilOrig = <<>>
    /\ ilNew = <<>>

IdleNames ==
    /\ nmPc = "idle"
    /\ nmRule = REMOVE_CONTINUE_RULE_NAME
    /\ nmFormat = <<>>
    /\ nmBlock = Loop("while", Ext("loop"), Block(<<>>, "none"))
    /\ nmFirst = Processed(<<>>, nmBlock)
    /\ nmSecond = nmFirst

-----------------------------------------------------------------------------
(* remove_continue: the rule run on one loop, then the loop executed.      *)

InitContinue ==
    /\ rcPc = "parsed"
    /\ rcOrig \in LoopsUpTo(MaxLen)
    /\ rcNew = rcOrig
    /\ rcVal = {}
    /\ rcObsOrig = NoObservation
    /\ rcObsNew = NoObservation
    /\ rcTwice = rcOrig
    /\ IdleKeys
    /\ IdleIter
    /\ IdleConfig
    /\ IdleNames
    /\ IdleString
    /\ IdleInject

\* The visitor reaches the loop: process_statement on it.
ProcessStatement ==
    /\ rcPc = "parsed"
    /\ rcNew' = process_statement(rcNew)
    /\ rcPc' = "processed"
    /\ UNCHANGED <<rcOrig, rcVal, rcObsOrig, rcObsNew, rcTwice, exceptContinue>>

\* The visitor goes on into the (rewritten) body of the loop.
VisitBody ==
    /\ rcPc = "processed"
    /\ rcNew' = VisitChildren(rcNew)
    /\ rcPc' = "visited"
    /\ UNCHANGED <<rcOrig, rcVal, rcObsOrig, rcObsNew, rcTwice, exceptContinue>>

\* One iteration of the loop, as parsed and as rewritten, under the same
\* values of the program's conditions.
RunIteration ==
    /\ rcPc \in {"visited", "ran"}
    /\ \E val \in SUBSET Conds :
        /\ rcVal' = val
        /\ rcObsOrig' = RunBody(rcOrig.block, val)
        /\ rcObsNew' = RunBody(rcNew.block, val)
    /\ rcPc' = IF rcObsOrig'.cause = "next" /\ rcObsNew'.cause = "next"
               THEN "ran" ELSE "exited"
    /\ UNCHANGED <<rcOrig, rcNew, rcTwice, exceptContinue>>

\* The loop's own condition ends it (a repeat loop tests it after the body).
LoopExhausted ==
    /\ rcPc \in (IF rcOrig.t = "repeat" THEN {"ran"} ELSE {"visited", "ran"})
    /\ rcObsOrig' = Observation(<<>>, "exhausted")
    /\ rcObsNew' = Observation(<<>>, "exhausted")
    /\ rcPc' = "exited"
    /\ UNCHANGED <<rcOrig, rcNew, rcVal, rcTwice, exceptContinue>>

\* The rule is run once more, on the loop it produced.
ProcessAgain ==
    /\ rcPc = "visited"
    /\ rcTwice' = VisitStatement(rcNew)
    /\ rcPc' = "again"
    /\ UNCHANGED <<rcOrig, rcNew, rcVal, rcObsOrig, rcObsNew, exceptContinue>>

NextContinue ==
    ProcessStatement \/ VisitBody \/ RunIteration \/ LoopExhausted \/ ProcessAgain

SpecContinue == InitContinue /\ [][NextContinue]_vars

-----------------------------------------------------------------------------
(* remove_continue: what the claims speak of.                              *)

\* The jumps `kind` that belong to the loop whose body is `block`: those
\* reachable through the branches and else blocks of nested if statements
\* and through nested do blocks, not through nested loops.
RECURSIVE JumpsIn(_, _)
JumpsIn(block, kind) ==
    LET SumSeq(blocks) ==
            LET RECURSIVE Sum(_)
                Sum(i) == IF i > Len(blocks) THEN 0
                          ELSE JumpsIn(blocks[i], kind) + Sum(i + 1)
            IN  Sum(1)
        OfStmt(s) ==
            IF s.t = "if"
            THEN SumSeq([i \in 1..Len(s.branches) |-> s.branches[i].block]) + SumSeq(s.else)
            ELSE IF s.t = "do" THEN JumpsIn(s.block, kind)
            ELSE 0
        RECURSIVE SumStmts(_)
        SumStmts(i) == IF i > Len(block.stmts) THEN 0
                       ELSE OfStmt(block.stmts[i]) + SumStmts(i + 1)
    IN  (IF block.last = kind THEN 1 ELSE 0) + SumStmts(1)

\* `block` with every `continue` that belongs to its loop turned into `break`.
RECURSIVE EveryContinueToBreak(_)
EveryContinueToBreak(block) ==
    LET OfStmt(s) ==
            IF s.t = "if"
            THEN If([i \in 1..Len(s.branches) |->
                        Branch(s.branches[i].cond, EveryContinueToBreak(s.branches[i].block))],
                    [i \in 1..Len(s.else) |-> EveryContinueToBreak(s.else[i])])
            ELSE IF s.t = "do" THEN Do(EveryContinueToBreak(s.block))
            ELSE s
    IN  Block([i \in 1..Len(block.stmts) |-> OfStmt(block.stmts[i])],
              IF block.last = "continue" THEN "break" ELSE block.last)

\* The rule has injected the conditional after the wrapper.
HasHandler(block) ==
    /\ Len(block.stmts) = 3
    /\ block.stmts[1].t = "local"
    /\ block.stmts[2].t = "repeat"
    /\ block.stmts[3].t = "if"

Executed == rcPc \in {"ran", "exited"} /\ rcObsOrig.cause # "exhausted"

\* C1: for every loop and every valuation of the branch conditions, the
\* rewritten loop makes the same calls in the same order and leaves the
\* loop for the same cause (next iteration, break, return, exhausted) as
\* the original loop.
C1_SameEffectsAndExit ==
    rcPc \in {"ran", "exited"} => rcObsNew = rcObsOrig

\* C2: when the body holds both continue and break, the conditional after
\* the wrapper breaks the outer loop at the end of an iteration if and only
\* if the original body executed `break` in that iteration.
C2_HandlerBreaksIffBreak ==
    (Executed /\ HasHandler(rcNew.block))
        => (rcObsNew.cause = "break" <=> rcObsOrig.cause = "break")

\* C9: a loop whose body holds no `continue` of its own is left unchanged by
\* the rule's hook on it, whether or not it holds `break`.
C9_NoContinueUnchanged ==
    (rcPc = "processed" /\ JumpsIn(rcOrig.block, "continue") = 0) => rcNew = rcOrig

C9_Witness ==
    /\ rcPc = "processed"
    /\ JumpsIn(rcOrig.block, "continue") = 0
    /\ JumpsIn(rcOrig.block, "break") > 0
    /\ rcNew = rcOrig

\* C10: a loop whose body holds at least one `continue` and no `break` gets
\* as its body exactly one `repeat <original body> until true` in which
\* every such `continue` is a `break`: no sentinel local, no conditional
\* after the wrapper, every other statement unchanged.
C10_WrappedOnly ==
    (/\ rcPc = "processed"
     /\ JumpsIn(rcOrig.block, "continue") > 0
     /\ JumpsIn(rcOrig.block, "break") = 0)
        => rcNew.block = Block(<<RepeatNew(EveryContinueToBreak(rcOrig.block), True)>>, "none")

\* The blocks of a statement, and those of a block, at any depth: branches,
\* else blocks, do blocks and loop bodies.
RECURSIVE BlocksIn(_)
BlocksOf(s) ==
    CASE s.t = "if" ->
            UNION {BlocksIn(s.branches[i].block) : i \in 1..Len(s.branches)}
            \cup UNION {BlocksIn(s.else[i]) : i \in 1..Len(s.else)}
      [] s.t = "do" \/ s.t \in LoopKinds -> BlocksIn(s.block)
      [] OTHER -> {}

BlocksIn(block) == {block} \cup UNION {BlocksOf(block.stmts[i]) : i \in 1..Len(block.stmts)}

\* C11: after the rule has run over the loop and everything in it, no
\* block of the tree ends with `continue`.
C11_NoContinueLeft ==
    rcPc \in {"visited", "ran", "exited", "again"}
        => \A b \in BlocksOf(rcNew) : b.last # "continue"

\* C12: running the rule on the loop it produced changes nothing.
C12_Idempotent ==
    rcPc = "again" => rcTwice = rcNew

\* C12 witness: the second run was made on a loop the first run rewrote
\* with a wrapper and a conditional after it.
C12_Witness ==
    /\ rcPc = "again"
    /\ rcNew # rcOrig
    /\ HasHandler(rcNew.block)
    /\ rcTwice = rcNew

\* The loops nested in the body of a loop, in source order: those met
\* through if statements and do blocks, each taken whole.
RECURSIVE NestedLoops(_)
NestedLoops(block) ==
    LET OfBlocks(blocks) ==
            LET RECURSIVE From(_)
                From(i) == IF i > Len(blocks) THEN <<>>
                           ELSE NestedLoops(blocks[i]) \o From(i + 1)
            IN  From(1)
        OfStmt(s) ==
            IF s.t = "if"
            THEN OfBlocks([i \in 1..Len(s.branches) |-> s.branches[i].block]) \o OfBlocks(s.else)
            ELSE IF s.t = "do" THEN NestedLoops(s.block)
            ELSE IF s.t \in LoopKinds THEN <<s>>
            ELSE <<>>
        RECURSIVE FromStmt(_)
        FromStmt(i) == IF i > Len(block.stmts) THEN <<>>
                       ELSE OfStmt(block.stmts[i]) \o FromStmt(i + 1)
    IN  FromStmt(1)

\* The body of the wrapper Processor::process has put around `block`, or
\* `block` itself when it has put none.
Wrapped(orig, new) ==
    IF new = orig THEN new
    ELSE (CHOOSE s \in {new.stmts[i] : i \in 1..Len(new.stmts)} : s.t = "repeat").block

\* C24: the hook on a loop counts no more continue and break terminators
\* than belong to that loop, and it leaves every loop nested in the body
\* as it was: no terminator of a nested loop is counted, rewritten or given
\* a sentinel assignment on behalf of the outer loop.
C24_NestedLoopsNotTouched ==
    rcPc = "processed"
    => /\ count_continue_break(rcOrig.block).c <= JumpsIn(rcOrig.block, "continue")
       /\ count_continue_break(rcOrig.block).b <= JumpsIn(rcOrig.block, "break")
       /\ NestedLoops(Wrapped(rcOrig.block, rcNew.block)) = NestedLoops(rcOrig.block)

\* C24: the hook has rewritten a loop whose body holds a loop with a
\* terminator of its own.
C24_Witness ==
    /\ rcPc = "processed"
    /\ rcNew # rcOrig
    /\ \E i \in 1..Len(NestedLoops(rcOrig.block)) :
          JumpsIn(NestedLoops(rcOrig.block)[i].block, "continue") > 0

\* The sentinel a body with n.c continues and n.b breaks is given.
SentinelOf(n) == IF n.c < n.b THEN ContinueVariableName ELSE BreakVariableName

\* The value of the sentinel `var` on leaving the wrapper, in an iteration
\* of the rewritten body `new` under the valuation val.
OnLeavingWrapper(new, var, val) ==
    ExecFrom(Block(SubSeq(new.stmts, 1, 2), "none"), 1, val, EmptyEnv).env[var]

\* C25: a body with both continue and break is given exactly one sentinel
\* local, set to false before the wrapper in every iteration: the continue
\* sentinel when the continues are fewer than the breaks, true on leaving the
\* wrapper iff the iteration ended by an original continue, and the break
\* sentinel otherwise, true on leaving the wrapper iff the iteration ended
\* by an original break.
C25_OneSentinel ==
    (/\ Executed
     /\ JumpsIn(rcOrig.block, "continue") > 0
     /\ JumpsIn(rcOrig.block, "break") > 0)
    => LET n == Pair(JumpsIn(rcOrig.block, "continue"), JumpsIn(rcOrig.block, "break"))
           new == rcNew.block
           ended == ExecBlock(rcOrig.block, rcVal, EmptyEnv).exit
       IN  /\ Len(new.stmts) >= 2
           /\ Cardinality({i \in 1..Len(new.stmts) : new.stmts[i].t = "local"}) = 1
           /\ new.stmts[1] = LocalAssign(SentinelOf(n), False)
           /\ new.stmts[2].t = "repeat"
           /\ Truthy(OnLeavingWrapper(new, SentinelOf(n), rcVal))
                <=> ended = (IF n.c < n.b THEN "continue" ELSE "break")

-----------------------------------------------------------------------------
(* remove_duplicated_keys: the literals the rule is run on, and the run.   *)

\* Keys: the integers 1, 2 and 3, then 0 and 1.5, a string, and a call.
KeyShapes(i) == {Num(2), Num(4), Num(6), Num(0), Num(3), Str("x"), CallExp(i)}
ValueShapes(i) == {Const(i), CallExp(i)}

\* The entries that may stand at position i of a literal.
EntryShapes(i) ==
    {ValueEntry(v) : v \in ValueShapes(i)}
    \cup {IndexEntry(key, v) : key \in KeyShapes(i), v \in ValueShapes(i)}
    \cup {FieldEntry("x", Const(i))}

RECURSIVE EntriesOfLen(_)
EntriesOfLen(n) ==
    IF n = 0 THEN {<<>>}
    ELSE {Append(es, entry) : es \in EntriesOfLen(n - 1), entry \in EntryShapes(n)}

LiteralsUpTo(max) == {TableExp(entries) : entries \in UNION {EntriesOfLen(n) : n \in 0..max}}

\* What a call in key position may return.
KeyReturns == {Num(2), Num(4), Str("x")}

InitKeys ==
    /\ rkPc = "parsed"
    /\ \E n \in 0..MaxEntries : \E entries \in EntriesOfLen(n) : rkOrig = TableExp(entries)
    /\ rkNew = rkOrig
    /\ rkSkip = FALSE
    /\ rkRet = Num(0)
    /\ rkObsOrig = NoTable
    /\ rkObsNew = NoTable
    /\ rkTwice = rkOrig
    /\ IdleContinue
    /\ IdleIter
    /\ IdleConfig
    /\ IdleNames
    /\ IdleString
    /\ IdleInject

\* The visitor reaches the table literal: process_expression on it.
ProcessExpression ==
    /\ rkPc = "parsed"
    /\ LET r == process_expression(rkNew, rkSkip)
       IN  rkNew' = r.exp /\ rkSkip' = r.skip
    /\ rkPc' = "processed"
    /\ UNCHANGED <<rkOrig, rkRet, rkObsOrig, rkObsNew, rkTwice, exceptKeys>>

\* The visitor goes on into the expression that now stands there.
VisitExpression ==
    /\ rkPc = "processed"
    /\ LET r == VisitGenerated(rkNew, rkSkip)
       IN  rkNew' = r.exp /\ rkSkip' = r.skip
    /\ rkPc' = "visited"
    /\ UNCHANGED <<rkOrig, rkRet, rkObsOrig, rkObsNew, rkTwice, exceptKeys>>

\* The original literal and the rewritten expression are evaluated, the
\* calls in key position returning the same key in both.
EvaluateBoth ==
    /\ rkPc = "visited"
    /\ \E ret \in KeyReturns :
        /\ rkRet' = ret
        /\ rkObsOrig' = EvalExp(rkOrig, ret)
        /\ rkObsNew' = EvalExp(rkNew, ret)
    /\ rkPc' = "ran"
    /\ UNCHANGED <<rkOrig, rkNew, rkSkip, rkTwice, exceptKeys>>

\* The rule is run once more, on the expression it produced.
ProcessExpressionAgain ==
    /\ rkPc = "visited"
    /\ rkTwice' = RemoveDuplicatedKeysProcess(<<>>, rkNew).tree
    /\ rkPc' = "again"
    /\ UNCHANGED <<rkOrig, rkNew, rkSkip, rkRet, rkObsOrig, rkObsNew, exceptKeys>>

NextKeys == ProcessExpression \/ VisitExpression \/ EvaluateBoth \/ ProcessExpressionAgain

SpecKeys == InitKeys /\ [][NextKeys]_vars

\* Every explicit key of the literal folds to a constant.
AllResolvable(exp) ==
    \A i \in 1..Len(exp.entries) : Evaluate(exp.entries[i].key).ty # "Unknown"

\* C3: a literal whose keys are all statically resolvable is rewritten into
\* a literal that maps every key to the value the original gives it, the
\* later declaration winning: no key is lost or added.
C3_SameTable ==
    (rkPc = "ran" /\ AllResolvable(rkOrig)) => rkObsNew.table = rkObsOrig.table

\* C4: every key expression and value expression of the original literal
\* is evaluated exactly once in the rewritten code, in the original
\* left-to-right order.
C4_SameEvaluationOrder ==
    rkPc = "ran" => rkObsNew.trace = rkObsOrig.trace

\* An entry with a string key: a named field or ['x'] = v.
IsStringKeyed(entry) == entry.k = "field" \/ (entry.k = "index" /\ entry.key.e = "str")

\* The string-keyed entries of a literal that no later entry redeclares.
LastDeclarations(entries) ==
    LET kept(i) == /\ IsStringKeyed(entries[i])
                   /\ \A j \in (i + 1)..Len(entries) :
                         ~(IsStringKeyed(entries[j]) /\ entries[j].key = entries[i].key)
        RECURSIVE From(_)
        From(i) == IF i > Len(entries) THEN <<>>
                   ELSE (IF kept(i) THEN <<entries[i]>> ELSE <<>>) \o From(i + 1)
    IN  From(1)

\* C13: in a literal whose keys are all resolvable, a named field or a
\* string-keyed entry is kept as it is unless a later entry declares the
\* same key, and then only the later declaration remains.
C13_StringKeysKept ==
    (rkPc \in {"processed", "visited", "ran"} /\ AllResolvable(rkOrig))
        => /\ rkNew.e = "table"
           /\ SelectSeq(rkNew.entries, IsStringKeyed) = LastDeclarations(rkOrig.entries)

\* The explicit keys of the literal that evaluate to Unknown.
UnknownKeys(exp) ==
    {i \in 1..Len(exp.entries) :
        exp.entries[i].k = "index" /\ Evaluate(exp.entries[i].key).ty = "Unknown"}

FirstUnknown(exp) == CHOOSE i \in UnknownKeys(exp) : \A j \in UnknownKeys(exp) : i <= j

\* C14: the literal becomes a function called on the spot exactly when one
\* of its explicit keys evaluates to Unknown; the base table of that
\* function holds only entries from before the first such entry, every
\* entry from it onwards is an indexed assignment on the helper local, in
\* source order, and the helper local is returned.  Otherwise the result
\* is a table literal.
C14_FunctionFromFirstUnknown ==
    rkPc \in {"processed", "visited", "ran"} =>
        IF UnknownKeys(rkOrig) = {}
        THEN rkNew.e = "table"
        ELSE LET u == FirstUnknown(rkOrig)
                 n == Len(rkOrig.entries)
             IN  /\ rkNew.e = "callfunction"
                 /\ rkNew.stmts[1].t = "local"
                 /\ rkNew.return = rkNew.stmts[1].var
                 /\ \A j \in 1..Len(rkNew.stmts[1].value.entries) :
                       \E i \in 1..(u - 1) :
                           rkNew.stmts[1].value.entries[j].value = rkOrig.entries[i].value
                 /\ Len(rkNew.stmts) = 1 + (n - u + 1)
                 /\ \A i \in u..n :
                       LET stmt == rkNew.stmts[1 + (i - u + 1)]
                       IN  /\ stmt.t = "assign"
                           /\ stmt.var = rkNew.return
                           /\ stmt.value = rkOrig.entries[i].value
                           /\ rkOrig.entries[i].k # "value" => stmt.key = rkOrig.entries[i].key

\* The entries with an explicit key that resolves to a positive integer.
IntegerKeyed(exp) ==
    {i \in 1..Len(exp.entries) :
        /\ exp.entries[i].k = "index"
        /\ Evaluate(exp.entries[i].key).ty = "Number"
        /\ IsPositiveInteger(Evaluate(exp.entries[i].key).v)}

\* Those of them that come after the first entry with an Unknown key.
IntegerKeyedLater(exp) ==
    IF UnknownKeys(exp) = {} THEN {}
    ELSE {i \in IntegerKeyed(exp) : i > FirstUnknown(exp)}

\* The entries of a literal at the positions of the set given, in order.
RECURSIVE EntriesAt(_, _, _)
EntriesAt(entries, positions, i) ==
    IF i > Len(entries) THEN <<>>
    ELSE (IF i \in positions THEN <<entries[i]>> ELSE <<>>)
         \o EntriesAt(entries, positions, i + 1)

\* The table literal the rule has rebuilt: the literal itself, or the base
\* table of the generated function.
Rebuilt(exp) == IF exp.e = "callfunction" THEN exp.stmts[1].value ELSE exp

\* C26: an explicit key that resolves to a positive integer takes part in
\* collision tracking only until the first entry with an Unknown key: every
\* such entry after it is emitted as an indexed assignment, in source order
\* among the assignments of the Unknown-keyed entries, and the rebuilt table
\* is the one the literal without these entries gives.
C26_TrackedUntilFirstUnknown ==
    (rkPc \in {"processed", "visited", "ran"} /\ UnknownKeys(rkOrig) # {})
    => LET later == IntegerKeyedLater(rkOrig)
           assigned == EntriesAt(rkOrig.entries, UnknownKeys(rkOrig) \cup later, 1)
           without == TableExp(EntriesAt(rkOrig.entries,
                                         (1..Len(rkOrig.entries)) \ later, 1))
       IN  /\ rkNew.e = "callfunction"
           /\ Tail(rkNew.stmts) =
                [j \in 1..Len(assigned) |->
                    AssignIndex(rkNew.return, assigned[j].key, assigned[j].value)]
           /\ Rebuilt(rkNew) = Rebuilt(process_expression(without, FALSE).exp)

\* C26: the rule has rewritten a literal where an integer key after the
\* first Unknown key redeclares an index declared before it.
C26_Witness ==
    /\ rkPc = "processed"
    /\ \E i \in IntegerKeyedLater(rkOrig) :
          \E j \in IntegerKeyed(rkOrig) :
              j < FirstUnknown(rkOrig) /\ rkOrig.entries[j].key = rkOrig.entries[i].key

\* The index the i-th entry of a literal declares: its position among the
\* positional entries, or its explicit key when that resolves to a positive
\* integer; 0 when it declares none.
ResolvedIndex(exp, i) ==
    IF exp.entries[i].k = "value"
    THEN Cardinality({j \in 1..i : exp.entries[j].k = "value"})
    ELSE IF i \in IntegerKeyed(exp) THEN Evaluate(exp.entries[i].key).v \div 2
    ELSE 0

\* The entries emitted in positional form, in order.
Positional(exp) ==
    EntriesAt(exp.entries, {j \in 1..Len(exp.entries) : exp.entries[j].k = "value"}, 1)

\* The p-th positional entry of the rebuilt literal is the last of the
\* declarations `among` of index p in the original literal.
LastDeclarationAt(p, among) ==
    LET decls == {i \in among : ResolvedIndex(rkOrig, i) = p}
    IN  /\ decls # {}
        /\ Positional(Rebuilt(rkNew))[p].value =
              rkOrig.entries[CHOOSE i \in decls : \A j \in decls : j <= i].value

\* C27 as stated: in the rebuilt literal, the entry in positional form at
\* position p is the last declaration of index p in the original literal.
C27_PositionalIsLastDeclaration ==
    rkPc \in {"processed", "visited", "ran"}
    => \A p \in 1..Len(Positional(Rebuilt(rkNew))) :
          LastDeclarationAt(p, 1..Len(rkOrig.entries))

\* C27: in the rebuilt literal, the entry in positional form at position p
\* is the last declaration of index p among the entries that take part in
\* collision tracking (every positional entry, and an integer-keyed entry
\* only before the first Unknown key): positional form is given to a
\* gap-free run of indices from 1 only, counted by positional entries, and
\* never to a key that is zero, negative or not an integer.
C27_PositionalIsLastTracked ==
    rkPc \in {"processed", "visited", "ran"}
    => \A p \in 1..Len(Positional(Rebuilt(rkNew))) :
          LastDeclarationAt(p, (1..Len(rkOrig.entries)) \ IntegerKeyedLater(rkOrig))

\* C27: an integer-keyed entry has been given positional form after a
\* positional entry, in a literal that also has a key that is not a
\* positive integer.
C27_Witness ==
    /\ rkPc = "processed"
    /\ Len(Positional(Rebuilt(rkNew))) > 1
    /\ \E i \in IntegerKeyed(rkOrig) :
          /\ ResolvedIndex(rkOrig, i) = 2
          /\ Positional(Rebuilt(rkNew))[2].value = rkOrig.entries[i].value
    /\ \E i \in 1..Len(rkOrig.entries) :
          /\ rkOrig.entries[i].k = "index"
          /\ Evaluate(rkOrig.entries[i].key).ty = "Number"
          /\ ~IsPositiveInteger(Evaluate(rkOrig.entries[i].key).v)

\* C30: on a literal whose keys are all statically resolvable the rule is
\* idempotent: run on its own output, it leaves the literal unchanged.
C30_KeysIdempotent ==
    (rkPc = "again" /\ AllResolvable(rkOrig)) => rkTwice = rkNew

-----------------------------------------------------------------------------
(* remove_generalized_iteration: the blocks the rule is run on.            *)

ForBody(stmts) == Block(stmts, "none")
SingleFor(n, stmts) == GenericFor(n, <<UserE(n)>>, ForBody(stmts))
NestedFor == SingleFor(0, <<Call("g")>>)

IterShapes(i) ==
    {Call("f"), Call("g"),
     SingleFor(i, <<>>),
     SingleFor(i, <<Call("f")>>),
     SingleFor(i, <<NestedFor>>),
     SingleFor(i, <<Call("f"), NestedFor>>),
     SingleFor(i, <<NestedFor, Call("f")>>),
     \* for k, v in next, t do ... end
     GenericFor(i, <<IdentE("next"), UserE(i)>>, ForBody(<<Call("f")>>)),
     Do(ForBody(<<SingleFor(i, <<Call("f")>>)>>)),
     If(<<Branch(StringE("c"), ForBody(<<SingleFor(i, <<>>)>>))>>,
        <<ForBody(<<Call("g")>>)>>)}

RECURSIVE StmtsOfLen(_)
StmtsOfLen(n) ==
    IF n = 0 THEN {<<>>}
    ELSE {Append(ss, s) : ss \in StmtsOfLen(n - 1), s \in IterShapes(n)}

IterBlocksUpTo(max) ==
    {Block(ss, last) : ss \in UNION {StmtsOfLen(n) : n \in 0..max},
                       last \in {"none", "return"}}

-----------------------------------------------------------------------------
(* remove_generalized_iteration: the rule run on one block, then the       *)
(* rewritten block executed.                                               *)

InitIter ==
    /\ giPc = "parsed"
    /\ giOrig \in IterBlocksUpTo(MaxStmts)
    /\ giNew = giOrig
    /\ giSkip = FALSE
    /\ giKind = "plain"
    /\ giItems = 0
    /\ giTrace = <<>>
    /\ IdleContinue
    /\ IdleKeys
    /\ IdleConfig
    /\ IdleNames
    /\ IdleString
    /\ IdleInject

\* DefaultVisitor::visit_block calls process_block on the block
ProcessBlock ==
    /\ giPc = "parsed"
    /\ LET r == process_block(giNew, giSkip)
       IN  /\ giNew' = r.block
           /\ giSkip' = r.skip
    /\ giPc' = "processed"
    /\ UNCHANGED <<giOrig, giKind, giItems, giTrace, exceptIter>>

\* and then visits its statements
VisitStatements ==
    /\ giPc = "processed"
    /\ LET r == IterVisitStatements(giNew, 1, giSkip)
       IN  /\ giNew' = r.block
           /\ giSkip' = r.skip
    /\ giPc' = "visited"
    /\ UNCHANGED <<giOrig, giKind, giItems, giTrace, exceptIter>>

RunRewritten ==
    /\ giPc = "visited"
    /\ \E kind \in XKinds, items \in 0..MaxItems :
          /\ giKind' = kind
          /\ giItems' = items
          /\ giTrace' = RunBlock(giNew, kind, items)
    /\ giPc' = "ran"
    /\ UNCHANGED <<giOrig, giNew, giSkip, exceptIter>>

NextIter == ProcessBlock \/ VisitStatements \/ RunRewritten

SpecIter == InitIter /\ [][NextIter]_vars


-----------------------------------------------------------------------------
(* remove_generalized_iteration: the claims.                               *)

IsSingleFor(s) == s.t = "genericfor" /\ Len(s.exps) = 1

\* The loops with one iterated expression anywhere in a block.
RECURSIVE SingleLoops(_)
SingleLoops(block) ==
    UNION {LET s == block.stmts[i]
           IN  CASE s.t = "genericfor" ->
                      (IF IsSingleFor(s) THEN {s.n} ELSE {}) \cup SingleLoops(s.block)
                 [] s.t = "do" -> SingleLoops(s.block)
                 [] s.t = "if" ->
                      UNION {SingleLoops(s.branches[j].block) : j \in 1..Len(s.branches)}
                      \cup UNION {SingleLoops(s.else[j]) : j \in 1..Len(s.else)}
                 [] OTHER -> {}
           : i \in 1..Len(block.stmts)}

Count(trace, ev, n) == Cardinality({i \in 1..Len(trace) : trace[i].ev = ev /\ trace[i].n = n})

\* The executions of loop n in a trace: where its triple is consumed.
Starts(trace, n) == {i \in 1..Len(trace) : trace[i].ev = "for" /\ trace[i].n = n}

\* C5: executing the rewritten block, a loop that had one iterated
\* expression x evaluates x exactly once each time the loop is executed, and
\* when x is a table whose metatable has a function __iter, that function
\* is called exactly once each time the loop is executed, however many items
\* the loop yields.
C5_EvaluatedOnceIterOnce ==
    giPc = "ran" =>
        \A n \in SingleLoops(giOrig) :
            /\ Count(giTrace, "x", n) = Count(giTrace, "for", n)
            /\ giKind = "iter" => Count(giTrace, "__iter", n) = Count(giTrace, "for", n)
            /\ giKind # "iter" => Count(giTrace, "__iter", n) = 0

\* C5 witness: a rewritten loop over a table with __iter has run over two
\* items: three calls of the iterator function, one of __iter, one of x.
C5_Witness ==
    /\ giPc = "ran"
    /\ giKind = "iter"
    /\ giItems = 2
    /\ \E n \in SingleLoops(giOrig) :
          /\ Count(giTrace, "for", n) = 1
          /\ Count(giTrace, "next", n) = 3
          /\ Count(giTrace, "__iter", n) = 1
          /\ Count(giTrace, "x", n) = 1

\* The rule as C6 describes it: each loop with one expression replaced, where
\* it stands, by a do statement that ends with the loop, everything else as
\* it was.
RECURSIVE WrappedInPlace(_, _)
WrappedInPlace(orig, new) ==
    /\ new.last = orig.last
    /\ Len(new.stmts) = Len(orig.stmts)
    /\ \A i \in 1..Len(orig.stmts) :
          LET o == orig.stmts[i]
              w == new.stmts[i]
          IN  CASE IsSingleFor(o) ->
                     /\ w.t = "do"
                     /\ Len(w.block.stmts) = 3
                     /\ w.block.stmts[3].t = "genericfor"
                     /\ w.block.stmts[3].n = o.n
                     /\ WrappedInPlace(o.block, w.block.stmts[3].block)
                [] o.t = "genericfor" ->
                     /\ w.t = "genericfor"
                     /\ w.exps = o.exps
                     /\ WrappedInPlace(o.block, w.block)
                [] o.t = "do" -> w.t = "do" /\ WrappedInPlace(o.block, w.block)
                [] o.t = "if" ->
                     /\ w.t = "if"
                     /\ Len(w.branches) = Len(o.branches)
                     /\ Len(w.else) = Len(o.else)
                     /\ \A j \in 1..Len(o.branches) :
                           /\ w.branches[j].cond = o.branches[j].cond
                           /\ WrappedInPlace(o.branches[j].block, w.branches[j].block)
                     /\ \A j \in 1..Len(o.else) : WrappedInPlace(o.else[j], w.else[j])
                [] OTHER -> w = o

\* C6: after the rule, every loop with one iterated expression stands
\* wrapped in a do statement at its own position, the other statements and
\* the terminal statement of its block are still there in their order, and
\* the body of the loop is as it was.
C6_WrappedInPlace ==
    giPc \in {"visited", "ran"} => WrappedInPlace(giOrig, giNew)

\* The triple the shim is to hand to loop n, given what __iter returned.
ExpectedTriple(kind, n, trace, at) ==
    CASE kind = "iter" ->
            IF at > 1 /\ trace[at - 1].ev = "__iter" /\ trace[at - 1].n = n
            THEN Apply(V("function", "custom", n), trace[at - 1].args).vals
            ELSE <<>>
      [] kind \in {"plain", "noiter", "baditer"} ->
            <<V("function", "next", 0), V("table", kind, n), Nil>>
      [] OTHER -> <<Nth(XValues(kind, n), 1), Nth(XValues(kind, n), 2),
                    Nth(XValues(kind, n), 3)>>

\* C7: the triple a rewritten loop consumes is what the metatable's __iter
\* returned when x is a table whose metatable has a function __iter, the
\* triple of pairs(x) when x is a table with no metatable or no function
\* __iter, and the values of x as they are when x is not a table.
C7_TripleDispatch ==
    giPc = "ran" =>
        \A n \in SingleLoops(giOrig) : \A at \in Starts(giTrace, n) :
            giTrace[at].args = ExpectedTriple(giKind, n, giTrace, at)

\* C7 witness: a rewritten loop over a table whose __iter is not a function
\* has consumed the triple of pairs.
C7_Witness ==
    /\ giPc = "ran"
    /\ giKind = "baditer"
    /\ \E n \in SingleLoops(giOrig) : \E at \in Starts(giTrace, n) :
          giTrace[at].args = <<V("function", "next", 0), V("table", "baditer", n), Nil>>

\* C8: whenever the rewritten block calls a metatable's __iter, the
\* argument of the call is the iterated value x.
C8_IterCalledWithX ==
    giPc = "ran" =>
        \A i \in 1..Len(giTrace) :
            giTrace[i].ev = "__iter" =>
                giTrace[i].args = <<V("table", "iter", giTrace[i].n)>>


\* The generic fors anywhere in a block, each as its variables and its
\* iterated expressions.
RECURSIVE LoopHeads(_)
LoopHeads(block) ==
    UNION {LET s == block.stmts[i]
           IN  CASE s.t = "genericfor" -> {<<s.n, s.exps>>} \cup LoopHeads(s.block)
                 [] s.t = "do" -> LoopHeads(s.block)
                 [] s.t = "if" ->
                      UNION {LoopHeads(s.branches[j].block) : j \in 1..Len(s.branches)}
                      \cup UNION {LoopHeads(s.else[j]) : j \in 1..Len(s.else)}
                 [] OTHER -> {}
           : i \in 1..Len(block.stmts)}

HasSingleFor(block) == \E i \in 1..Len(block.stmts) : IsSingleFor(block.stmts[i])

\* C15: a generic for with two or more iterated expressions is still there
\* with the same expressions after the rule, and a block none of whose
\* statements is a generic for with one expression keeps its statements and
\* its terminal statement.
C15_MultiExpressionUntouched ==
    giPc \in {"visited", "ran"} =>
        /\ \A h \in LoopHeads(giOrig) : Len(h[2]) >= 2 => h \in LoopHeads(giNew)
        /\ ~HasSingleFor(giOrig) =>
              /\ giNew.last = giOrig.last
              /\ Len(giNew.stmts) = Len(giOrig.stmts)
              /\ \A i \in 1..Len(giOrig.stmts) :
                    /\ giNew.stmts[i].t = giOrig.stmts[i].t
                    /\ giOrig.stmts[i].t \in {"call", "genericfor"} =>
                          giNew.stmts[i] = giOrig.stmts[i]

\* C16: after the rule every generic for of the input that had one
\* iterated expression is in the tree as a loop over the three hidden
\* locals, and no generic for with one expression is left.
C16_EverySingleForRewritten ==
    giPc \in {"visited", "ran"} =>
        /\ \A n \in SingleLoops(giOrig) :
              <<n, triple_expressions(<<UserE(n)>>)>> \in LoopHeads(giNew)
        /\ \A h \in LoopHeads(giNew) : Len(h[2]) # 1


-----------------------------------------------------------------------------
(* Configuration: a rule created with its defaults, then configured.       *)

ValueTypes == {"string", "bool", "object"}

\* The keys the property maps are made of: keys the rule knows, and three
\* it may not know.
GivenKeys(rule) ==
    (DOMAIN KeysOf(rule) \cap
        {"runtime_variable_format", "require_mode", "libraries", "path", "no_hash",
         "error_call", "return_errors", "strict", "use_typeof", "types"})
    \cup {"prop", "no_hash", "runtime_variable_format"}

PropertyMaps(rule) ==
    UNION {[K -> {Value(ty) : ty \in ValueTypes}] :
              K \in {S \in SUBSET GivenKeys(rule) : Cardinality(S) <= MaxProps}}

\* The orders in which a loop over a map may come to its keys.
Orders(K) ==
    {o \in [1..Cardinality(K) -> K] : \A i, j \in 1..Cardinality(K) : o[i] = o[j] => i = j}

InitConfig ==
    /\ cfPc = "created"
    /\ cfRule \in RuleNames
    /\ cfProps \in PropertyMaps(cfRule)
    /\ cfOrder = <<>>
    /\ cfBefore = DefaultFields(cfRule)
    /\ cfFields = cfBefore
    /\ cfResult = Ok(cfFields)
    /\ IdleContinue
    /\ IdleKeys
    /\ IdleIter
    /\ IdleNames
    /\ IdleString
    /\ IdleInject

\* rule.configure(properties): the fields are assigned as the loop goes.
ConfigureRule ==
    /\ cfPc = "created"
    /\ \E order \in Orders(DOMAIN cfProps) :
          LET result == Configure(cfRule, cfProps, order, cfFields)
          IN  /\ cfOrder' = order
              /\ cfFields' = result.fields
              /\ cfResult' = result
    /\ cfPc' = "configured"
    /\ UNCHANGED <<cfRule, cfProps, cfBefore, exceptConfig>>

NextConfig == ConfigureRule

SpecConfig == InitConfig /\ [][NextConfig]_vars

Unrecognized == DOMAIN cfProps \ DOMAIN KeysOf(cfRule)

\* C17: a property map with a key the rule does not know makes configure
\* fail with the unexpected-property error that names that key; for
\* remove_continue given `no_hash` and `prop` the message is always
\* "unexpected field 'prop'".
C17_UnexpectedPropertyNamed ==
    cfPc = "configured" =>
        /\ Unrecognized # {} =>
              /\ ~cfResult.ok
              /\ cfResult.error = "UnexpectedProperty"
              /\ cfResult.key \in Unrecognized
        /\ (cfRule = REMOVE_CONTINUE_RULE_NAME /\ DOMAIN cfProps = {"no_hash", "prop"}) =>
              Message(cfResult) = <<"unexpected field '", "prop", "'">>

\* C18: when configure returns an error, the fields of the rule are what
\* they were before the call.
C18_ConfigureAtomic ==
    (cfPc = "configured" /\ ~cfResult.ok) => cfFields = cfBefore

C20_RuntimeVariableFormat ==
    (/\ cfPc = "configured"
     /\ cfRule = REMOVE_DUPLICATED_KEYS_RULE_NAME
     /\ DOMAIN cfProps = {"runtime_variable_format"}
     /\ cfProps["runtime_variable_format"].ty = "string")
        => (cfResult.ok /\ table_variable_name = <<"tbl">>)

-----------------------------------------------------------------------------
(* Helper names: one rule run twice, independently, on the same input.     *)

NameTreeSize == 1

Formats ==
    {<<"{name}">>, <<"{name}", "{hash}">>, <<"_DARKLUA_REMOVE_CONTINUE_", "{name}", "{hash}">>}

NamedRules ==
    {REMOVE_CONTINUE_RULE_NAME, REMOVE_DUPLICATED_KEYS_RULE_NAME,
     REMOVE_GENERALIZED_ITERATION_RULE_NAME}

TreesOf(rule) ==
    CASE rule = REMOVE_CONTINUE_RULE_NAME -> LoopsUpTo(NameTreeSize)
      [] rule = REMOVE_DUPLICATED_KEYS_RULE_NAME -> LiteralsUpTo(NameTreeSize)
      [] OTHER -> IterBlocksUpTo(NameTreeSize)

\* Rule::process of the rule named
ProcessOf(rule, format, block) ==
    CASE rule = REMOVE_CONTINUE_RULE_NAME -> RemoveContinueProcess(format, block)
      [] rule = REMOVE_DUPLICATED_KEYS_RULE_NAME -> RemoveDuplicatedKeysProcess(format, block)
      [] OTHER -> RemoveGeneralizedIterationProcess(format, block)

InitNames ==
    /\ nmPc = "given"
    /\ nmRule \in NamedRules
    /\ nmFormat \in (IF nmRule = REMOVE_DUPLICATED_KEYS_RULE_NAME THEN {<<>>} ELSE Formats)
    /\ nmBlock \in TreesOf(nmRule)
    /\ nmFirst = Processed(<<>>, nmBlock)
    /\ nmSecond = nmFirst
    /\ IdleContinue
    /\ IdleKeys
    /\ IdleIter
    /\ IdleConfig
    /\ IdleString
    /\ IdleInject

\* One run of the rule on the input.
FirstRun ==
    /\ nmPc = "given"
    /\ nmFirst' = ProcessOf(nmRule, nmFormat, nmBlock)
    /\ nmPc' = "first"
    /\ UNCHANGED <<nmRule, nmFormat, nmBlock, nmSecond, exceptNames>>

\* Another run, of a rule created anew, on the same input.
SecondRun ==
    /\ nmPc = "first"
    /\ nmSecond' = ProcessOf(nmRule, nmFormat, nmBlock)
    /\ nmPc' = "second"
    /\ UNCHANGED <<nmRule, nmFormat, nmBlock, nmFirst, exceptNames>>

NextNames == FirstRun \/ SecondRun

SpecNames == InitNames /\ [][NextNames]_vars

-----------------------------------------------------------------------------
(* write_string: a value is written, and the literal is read back.         *)

\* The number of characters of a value, the filling of a long one apart.
MaxChars == 3

StringChars ==
    {Chr("a"), Chr("1"), Chr("'"), Chr("\""), Chr("\\"), Chr("LF"), Chr("ESC"),
     Chr("]"), Chr("="), 233}

\* Enough characters to reach FORCE_QUOTED_STRING_THRESHOLD.
Filling == Repeat(Chr("o"), FORCE_QUOTED_STRING_THRESHOLD)

StringValues ==
    {head \o filling \o tail :
        head \in {<<>>, <<Chr("LF")>>},
        filling \in {<<>>, Filling},
        tail \in SeqsUpTo(StringChars, MaxChars)}

InitString ==
    /\ wsPc = "given"
    /\ wsValue \in StringValues
    /\ wsLiteral = <<>>
    /\ wsRead = Malformed
    /\ IdleContinue
    /\ IdleKeys
    /\ IdleIter
    /\ IdleConfig
    /\ IdleNames
    /\ IdleInject

WriteString ==
    /\ wsPc = "given"
    /\ wsLiteral' = write_string(wsValue)
    /\ wsPc' = "written"
    /\ UNCHANGED <<wsValue, wsRead, exceptString>>

ReadBack ==
    /\ wsPc = "written"
    /\ wsRead' = ReadString(wsLiteral)
    /\ wsPc' = "read"
    /\ UNCHANGED <<wsValue, wsLiteral, exceptString>>

NextString == WriteString \/ ReadBack

SpecString == InitString /\ [][NextString]_vars

\* C22: the literal write_string emits for a value, read back under the
\* rules for string literals, denotes that value.
C22_RoundTrip ==
    wsPc = "read" => wsRead = Denotes(wsValue)

-----------------------------------------------------------------------------
(* inject_libraries: the rule configured with libraries, run on a block.   *)

MaxLibraries == 2

LibraryNames == {"buffer", "task"}

PathsOf(name) == {NoPath, LibPath(name, "luau"), LibPath(name, "")}

LibraryShapes ==
    UNION {{Library(name, path, index) : path \in PathsOf(name), index \in {NoIndex, "default"}} :
              name \in LibraryNames}

\* The libraries configured: no two of the same name.
LibraryLists ==
    {libs \in SeqsUpTo(LibraryShapes, MaxLibraries) :
        \A i, j \in 1..Len(libs) : libs[i].name = libs[j].name => i = j}

UserStatements == {PrintCall("buffer"), PrintCall("task"), PrintCall("print")}

LibrariesPath == "injected"

InitInject ==
    /\ ilPc = "configured"
    /\ ilLibraries \in LibraryLists
    /\ ilNoHash \in BOOLEAN
    /\ ilOrig \in SeqsUpTo(UserStatements, MaxLibraries)
    /\ ilNew = ilOrig
    /\ IdleContinue
    /\ IdleKeys
    /\ IdleIter
    /\ IdleConfig
    /\ IdleNames
    /\ IdleString

InjectProcess ==
    /\ ilPc = "configured"
    /\ ilNew' = InjectLibrariesProcess(ilLibraries, LibrariesPath, ilNoHash, ilNew)
    /\ ilPc' = "processed"
    /\ UNCHANGED <<ilLibraries, ilNoHash, ilOrig, exceptInject>>

NextInject == InjectProcess

SpecInject == InitInject /\ [][NextInject]_vars

\* The libraries the statements refer to.
Referenced(stmts, libraries) ==
    {i \in 1..Len(libraries) : \E k \in 1..Len(stmts) : stmts[k].name = libraries[i].name}

\* C23: with several libraries configured and a block that refers to one of
\* them only, the rule prepends one statement, the local declaration of that
\* library, and the statements of the block follow unchanged.
C23_OnlyReferencedInjected ==
    (/\ ilPc = "processed"
     /\ Len(ilLibraries) > 1
     /\ Cardinality(Referenced(ilOrig, ilLibraries)) = 1)
    => LET i == CHOOSE i \in Referenced(ilOrig, ilLibraries) : TRUE
       IN  ilNew = <<LocalLibrary(ilLibraries[i].name,
                                  LibraryValue(ilLibraries[i], LibrariesPath, ilNoHash))>>
                   \o ilOrig

-----------------------------------------------------------------------------
(* One pass of each of the three rewriting rules: the visitor on a loop,   *)
(* on a table literal and on a block, with generated nodes met again.      *)

\* The largest number of statements or entries of a tree of a pass.
PassLen == 3

\* Statements of a loop body: a call, a guarded continue, a guarded break,
\* and nested loops that hold a continue and a break of their own: one with
\* as many continues as breaks, one with fewer, one with a continue in an
\* else block.
PassInnerLoops ==
    {Loop("while", Ext("b"), Block(<<IfCreate(Ext("a"), Jump("continue"))>>, "break")),
     Loop("while", Ext("b"), Block(<<IfCreate(Ext("a"), Jump("continue")),
                                     IfCreate(Ext("b"), Jump("break"))>>, "break")),
     Loop("while", Ext("a"), Block(<<IfCreate(Ext("b"), Jump("continue")),
                                     If(<<Branch(Ext("a"), Jump("break"))>>,
                                        <<Jump("continue")>>)>>, "break"))}

PassStmtShapes ==
    {Call("f"), IfCreate(Ext("a"), Jump("continue")), IfCreate(Ext("b"), Jump("break"))}
    \cup PassInnerLoops

PassLoops(n) ==
    {Loop(kind, Ext("loop"), Block(stmts, last)) :
        kind \in LoopKinds, stmts \in SeqsUpTo(PassStmtShapes, n), last \in Lasts}

\* Entries of a table literal: a positional value, the keys 1 and 2, and a
\* key that is a call.
PassEntryShapes(i) ==
    {ValueEntry(Const(i)), IndexEntry(Num(2), Const(i)), IndexEntry(Num(4), Const(i)),
     IndexEntry(CallExp(i), Const(i))}

RECURSIVE PassEntriesOfLen(_)
PassEntriesOfLen(n) ==
    IF n = 0 THEN {<<>>}
    ELSE {Append(es, entry) : es \in PassEntriesOfLen(n - 1), entry \in PassEntryShapes(n)}

PassLiterals(max) ==
    {TableExp(entries) : entries \in UNION {PassEntriesOfLen(n) : n \in 0..max}}

\* Statements of a block: a call, generic for loops over one expression
\* (empty, and with such a loop in its body), and one inside a do block.
PassIterShapes(i) ==
    {Call("f"),
     SingleFor(i, <<>>),
     SingleFor(i, <<NestedFor>>),
     Do(ForBody(<<SingleFor(i, <<Call("f")>>)>>))}

RECURSIVE PassStmtsOfLen(_)
PassStmtsOfLen(n) ==
    IF n = 0 THEN {<<>>}
    ELSE {Append(ss, s) : ss \in PassStmtsOfLen(n - 1), s \in PassIterShapes(n)}

PassBlocks(max) ==
    {Block(ss, "none") : ss \in UNION {PassStmtsOfLen(n) : n \in 0..max}}

\* Rule::process of one of the three rules is about to visit a tree.
InitPasses ==
    \/ /\ rcPc = "parsed"
       /\ rcOrig \in PassLoops(PassLen)
       /\ rcNew = rcOrig
       /\ rcVal = {}
       /\ rcObsOrig = NoObservation
       /\ rcObsNew = NoObservation
       /\ rcTwice = rcOrig
       /\ IdleKeys /\ IdleIter /\ IdleConfig /\ IdleNames /\ IdleString /\ IdleInject
    \/ /\ rkPc = "parsed"
       /\ rkOrig \in PassLiterals(PassLen)
       /\ rkNew = rkOrig
       /\ rkSkip = FALSE
       /\ rkRet = Num(0)
       /\ rkObsOrig = NoTable
       /\ rkObsNew = NoTable
       /\ rkTwice = rkOrig
       /\ IdleContinue /\ IdleIter /\ IdleConfig /\ IdleNames /\ IdleString /\ IdleInject
    \/ /\ giPc = "parsed"
       /\ giOrig \in PassBlocks(PassLen)
       /\ giNew = giOrig
       /\ giSkip = FALSE
       /\ giKind = "plain"
       /\ giItems = 0
       /\ giTrace = <<>>
       /\ IdleContinue /\ IdleKeys /\ IdleConfig /\ IdleNames /\ IdleString /\ IdleInject

NextPasses == NextContinue \/ NextKeys \/ NextIter

SpecPasses == InitPasses /\ [][NextPasses]_vars

-----------------------------------------------------------------------------
(* The passes: what the claims speak of.                                   *)

\* The repeat-until-true wrapper among the statements Processor::process
\* has left in a body.
WrapperOf(block) ==
    CHOOSE s \in {block.stmts[i] : i \in 1..Len(block.stmts)} : s.t = "repeat"

\* The body of a loop, as the hook on that loop alone leaves it: the loops
\* nested in it are as they were parsed.
OuterOnly(loop) == process_statement(loop).block

\* The nested loops of a body that are given a sentinel of their own.
WithSentinel(block) ==
    {i \in 1..Len(NestedLoops(block)) :
        LET n == count_continue_break(NestedLoops(block)[i].block)
        IN  n.c > 0 /\ n.b > 0}

\* C29: when a loop that needs a sentinel holds a loop that needs one too,
\* the two sentinels bearing the same names, the value the outer loop's
\* conditional reads after its wrapper, and with it the way the iteration
\* leaves the outer loop, is the one it reads with the inner loop not
\* rewritten: no assignment to the inner sentinel reaches it.
C29_NestedSentinelsApart ==
    LET n == count_continue_break(rcOrig.block)
    IN  (/\ Executed
         /\ n.c > 0 /\ n.b > 0
         /\ WithSentinel(rcOrig.block) # {})
        => /\ OnLeavingWrapper(rcNew.block, SentinelOf(n), rcVal)
                = OnLeavingWrapper(OuterOnly(rcOrig), SentinelOf(n), rcVal)
           /\ rcObsNew.cause = RunBody(OuterOnly(rcOrig), rcVal).cause

\* C29: the outer loop and a loop that is the first statement of its body
\* are given the sentinel of the same name, the inner loop is entered and
\* sets its sentinel to true, and the outer loop reads its own as false.
C29_Witness ==
    /\ Executed
    /\ Len(rcOrig.block.stmts) > 0
    /\ rcOrig.block.stmts[1].t \in LoopKinds
    /\ LET n == count_continue_break(rcOrig.block)
           inner == rcOrig.block.stmts[1]
           m == count_continue_break(inner.block)
       IN  /\ n.c > 0 /\ n.b > 0 /\ m.c > 0 /\ m.b > 0
           /\ SentinelOf(n) = SentinelOf(m)
           /\ Eval(inner.cond, rcVal, EmptyEnv)
           /\ Truthy(OnLeavingWrapper(Process(inner.block), SentinelOf(m), rcVal))
           /\ ~Truthy(OnLeavingWrapper(rcNew.block, SentinelOf(n), rcVal))

\* C28: a pass ends with every generated construct as it was generated.
\* The hook on the repeat-until-true wrapper leaves it alone, and the visit
\* changes nothing of it but the loops nested in it; skip_next_table_exp is
\* set exactly when the function was generated and is unset once the visit
\* has passed its base table, which stays as generated; skip_block_once is
\* set exactly when the do block was generated and is unset after the visit,
\* the do block still holding its two statements and its three-expression
\* loop, of which only the body may have changed.
C28_GeneratedNotRewritten ==
    /\ (rcPc = "visited" /\ OuterOnly(rcOrig) # rcOrig.block)
       => LET w == WrapperOf(OuterOnly(rcOrig))
          IN  /\ process_statement(w) = w
              /\ WrapperOf(rcNew.block) = VisitChildren(w)
    /\ rkPc = "processed" => (rkSkip <=> rkNew.e = "callfunction")
    /\ rkPc = "visited"
       => /\ ~rkSkip
          /\ rkNew = process_expression(rkOrig, FALSE).exp
    /\ giPc = "processed" => (giSkip <=> giNew # giOrig)
    /\ giPc = "visited"
       => /\ ~giSkip
          /\ LET gen == process_block(giOrig, FALSE).block
             IN  gen # giOrig
                 => /\ Len(giNew.stmts) = 1
                    /\ giNew.stmts[1].t = "do"
                    /\ [giNew.stmts[1] EXCEPT !.block.stmts[3].block =
                            gen.stmts[1].block.stmts[3].block] = gen.stmts[1]

\* C28: the function has been generated, the visit has gone past its base
\* table with the flag set, and the hook would have rewritten that table.
C28_Witness ==
    /\ rkPc = "visited"
    /\ rkNew.e = "callfunction"
    /\ ~rkSkip
    /\ process_expression(rkNew.stmts[1].value, FALSE).exp # rkNew.stmts[1].value

====
